---- MODULE Spec2Model ----
(***************************************************************************)
(* Admission layer of the Oshii backend: the /analyze and /generate        *)
(* handlers of backend/server.js together with the store functions of      *)
(* services/database.js they call.  Node runs one handler at a time and a  *)
(* handler gives up control only at an `await`; each action below is one   *)
(* awaited store or provider call together with the synchronous code that  *)
(* follows it up to the next await.                                         *)
(***************************************************************************)
EXTENDS Integers, Sequences, FiniteSets, TLC

\* ---------------------------------------------------------------- bounds
MaxReqs == 2        \* number of HTTP requests in one behaviour
MaxFree == 2        \* largest initial free_generations_remaining
MaxRateReqs == 3    \* number of HTTP requests followed through the gates
MaxTicks == 3       \* number of clock ticks in one behaviour
TickMs == 500       \* milliseconds per clock tick
UserMax == 1        \* config.user.maxRequests (scaled)
MaxRestartReqs == 2 \* number of HTTP requests followed after a restart
MaxCostReqs == 2    \* number of HTTP requests followed through the cost gate alone
MaxOutageReqs == 1  \* number of HTTP requests followed through the cost gate during a store outage
CostUserMax == 1    \* COST_CONFIG.dailyUserLimit (scaled)
MaxDescLen == 6     \* longest video description given to cleanDescription
MaxUrlLen == 3      \* longest URL and longest query string given to the normalisation
MaxNameLen == 4     \* longest of two names compared by similarityScore
MaxFoodLen == 3     \* longest name in food_items
MaxRawLen == 3      \* longest raw name given to the matcher
MaxItems == 2       \* most rows of food_items
MaxSaves == 2       \* number of calls of saveRecipeToDatabase followed on their own
MaxExtractions == 2 \* number of calls of extractAudio followed on their own
MaxMixedReqs == 2   \* number of HTTP requests followed through the rate gates of both endpoints

\* ---------------------------------------------------------------- inputs
Users == {"u1", "u2"}

\* The users whose requests are followed; the other user only owns recipes
\* that are in the store from the start.
Requesters == {"u1"}

\* Source URLs as character sequences.  Requests carry either the video "a"
\* with a query string, or the video "ab", whose URL extends that of "a";
\* rows in the store from the start carry the bare URL of "a".
Urls == { <<"a", "?", "x">>, <<"a", "b">> }

NullUrl == << >>

\* URLs of no supported platform: one with nothing before its query string,
\* one of another site
UnsupportedUrls == { <<"?", "x">>, <<"b">> }

\* What the urlPattern of the platforms stands for here: the supported
\* sites are those whose URLs start with "a"
PlatformPrefixes == { <<"a">> }
ReqIds == 1..MaxReqs

VARIABLES
    activeAnalyses,   \* Map userId -> normalizedUrl           (server.js:48)
    recipes,          \* table recipes, in insertion order; id = position
    profiles,         \* table profiles: is_premium, free_generations_remaining
    reqs,             \* per request: position in its handler, locals, response
    free0,            \* free_generations_remaining at start (history)
    faulty,           \* whether store and provider calls may fail in this run
    downloads,        \* temporary audio files in AUDIO_DIR, by the request that made them
    now,              \* Date.now(), in milliseconds
    rateLimitStore,   \* byUser, byIp: Map key -> entry object; global   (rateLimiter.js:32)
    heap,             \* the entry objects of rateLimitStore, by scope and creator
    blockRows,        \* table rate_limit_stats: blocked_until by type and identifier
    counterRows,      \* table rate_limit_stats: count by type, identifier, period_start
    cache,            \* cost gate cache: daily, hourly, users     (costProtection.js:23)
    gate,             \* per request: position in the middlewares, locals, response
    exceeded,         \* times at which a limit was exceeded, by scope (history)
    calc,             \* a call of a pure function: its arguments and results
    ingredients,      \* table ingredients: recipe_id of each row
    steps,            \* table steps: recipe_id of each row
    saves,            \* per call of saveRecipeToDatabase: its position, locals, result
    audio             \* per call of extractAudio: its position and timestamp; the files of AUDIO_DIR

\* State of the library functions followed on their own
libVars == <<ingredients, steps, saves, audio>>

SaveIds == 1..MaxSaves

ExtractionIds == 1..MaxExtractions

\* A call of saveRecipeToDatabase that has not started
IdleSave ==
    [ pc |-> "idle", hasIngredients |-> FALSE, hasSteps |-> FALSE, recipeId |-> 0,
      ingredientsError |-> FALSE, stepsError |-> FALSE ]

\* A call of extractAudio that has not started
IdleExtraction == [ pc |-> "idle", timestamp |-> -1, fullPath |-> -1 ]

\* No library function is running, the tables of ingredients and steps and
\* the audio directory are empty
LibAtRest ==
    /\ ingredients = << >>
    /\ steps = << >>
    /\ saves = << >>
    /\ audio = [ calls |-> << >>, files |-> {} ]

\* The state of call s of saveRecipeToDatabase; a call that has not started
\* has none
SaveAt(s) == IF s \in DOMAIN saves THEN saves[s] ELSE IdleSave

\* The state of call x of extractAudio
CallAt(x) == IF x \in DOMAIN audio.calls THEN audio.calls[x] ELSE IdleExtraction

\* State of the two gates (middlewares) and the clock
gateVars == <<now, rateLimitStore, heap, blockRows, counterRows, cache, gate, exceeded>>

vars == <<activeAnalyses, recipes, profiles, reqs, free0, faulty, downloads, gateVars, calc, libVars>>

\* No call of a pure function is followed
NoCall == << >>

\* Outcomes of a store or provider call: TRUE = success, FALSE = error
Outcomes == IF faulty THEN BOOLEAN ELSE {TRUE}

\* ------------------------------------------------------- pure functions

\* url.split('?')[0]
QPos(url) ==
    IF \E i \in 1..Len(url) : url[i] = "?"
    THEN CHOOSE i \in 1..Len(url) : url[i] = "?" /\ \A j \in 1..(i-1) : url[j] # "?"
    ELSE Len(url) + 1

\* A normalisation that keeps the query string
normalizeTikTokUrl_Keep(url) == url

normalizeTikTokUrl(url) == SubSeq(url, 1, QPos(url) - 1)

\* SQL: source_url LIKE '<pattern>%'  ('_' matches any one character)
LikePrefix(source_url, pattern) ==
    /\ source_url # NullUrl
    /\ Len(source_url) >= Len(pattern)
    /\ \A i \in 1..Len(pattern) : pattern[i] = "_" \/ pattern[i] = source_url[i]

MaxOf(S) == CHOOSE x \in S : \A y \in S : y <= x

\* Most recent row (order by created_at desc limit 1) among ids; 0 = null
MostRecent(ids) == IF ids = {} THEN 0 ELSE MaxOf(ids)

getExistingRecipeByUrl(rows, userId, sourceUrl) ==
    MostRecent({ i \in 1..Len(rows) :
                   /\ rows[i].user_id = userId
                   /\ LikePrefix(rows[i].source_url, normalizeTikTokUrl(sourceUrl)) })

findRecipeByUrlGlobal(rows, sourceUrl) ==
    MostRecent({ i \in 1..Len(rows) :
                   LikePrefix(rows[i].source_url, normalizeTikTokUrl(sourceUrl)) })

\* A quota check that lets every user generate
checkUserCanGenerateRecipe_Always(p) ==
    [ canGenerate |-> TRUE, isPremium |-> p.is_premium ]

\* canGenerate = isPremium || freeGenerationsRemaining > 0
checkUserCanGenerateRecipe(p) ==
    [ canGenerate |-> p.is_premium \/ p.free > 0,
      isPremium   |-> p.is_premium ]

Max2(a, b) == IF a >= b THEN a ELSE b

NoWrite == [write |-> FALSE, value |-> 0]

\* A decrement that trusts its caller: no premium test, no test for 0, no
\* Math.max
DecrementValue_Unchecked(p) == [write |-> TRUE, value |-> p.free - 1]

\* decrementFreeGenerations, steps 1 and 2 on the profile read: whether to
\* write, and the value to write
DecrementValue(p) ==
    IF p.is_premium THEN NoWrite
    ELSE IF p.free <= 0 THEN NoWrite
    ELSE [write |-> TRUE, value |-> Max2(p.free - 1, 0)]

\* Map operations
MapHas(m, k) == k \in DOMAIN m
MapSet(m, k, v) == [x \in (DOMAIN m) \cup {k} |-> IF x = k THEN v ELSE m[x]]
MapDelete(m, k) == [x \in (DOMAIN m) \ {k} |-> m[x]]

\* ---------------------------------------------------------------- gates
GateIds == 1..MaxRateReqs

\* The clients followed through the gates: one account behind one address
RateUsers == {"u1"}
Ips == {"ip1"}

\* rateLimiter.js:11-26 DEFAULT_CONFIG, scaled: the window is two ticks, the
\* IP limit exceeds the user limit and the global limit the IP limit, a block
\* outlasts the window and the IP block the user block
WindowMs == 2 * TickMs
DEFAULT_CONFIG ==
    [ user   |-> [maxRequests |-> UserMax,     windowMs |-> WindowMs,
                  blockDurationMs |-> WindowMs + TickMs],
      ip     |-> [maxRequests |-> UserMax + 1, windowMs |-> WindowMs,
                  blockDurationMs |-> 2 * WindowMs],
      global |-> [maxRequests |-> UserMax + 2, windowMs |-> WindowMs,
                  blockDurationMs |-> 0] ]

\* rateLimiter.js:313-330 strictRateLimiter, scaled: its limits are not above
\* those of DEFAULT_CONFIG (the scale has no room below them) and its blocks
\* outlast the default ones
STRICT_CONFIG ==
    [ user   |-> [maxRequests |-> UserMax,     windowMs |-> WindowMs,
                  blockDurationMs |-> 3 * WindowMs],
      ip     |-> [maxRequests |-> UserMax + 1, windowMs |-> WindowMs,
                  blockDurationMs |-> 3 * WindowMs],
      global |-> [maxRequests |-> UserMax + 2, windowMs |-> WindowMs,
                  blockDurationMs |-> 0] ]

\* rateLimiter.js:242-248: the configuration of the middleware of an
\* endpoint: rateLimiter() on /analyze, strictRateLimiter() on /generate
\* (server.js:83, 343)
RateConfig(kind) == IF kind = "generate" THEN STRICT_CONFIG ELSE DEFAULT_CONFIG

Scopes == {"ip", "user"}

\* type column of rate_limit_stats for a scope (rateLimiter.js:267, 283)
TypeOf(scope) == IF scope = "ip" THEN "ip_minute" ELSE "user_minute"

\* Math.ceil(a / b) for a >= 0, b > 0
Ceil(a, b) == IF a % b = 0 THEN a \div b ELSE (a \div b) + 1

\* An entry object of rateLimitStore.byUser / byIp; a slot of the heap not
\* in use holds NoEntry
NoEntry == [count |-> 0, resetTime |-> 0, blocked |-> FALSE, blockUntil |-> 0]

\* History of one checkLimit call: its result (allowed, exceeded, memBlock,
\* dbBlock), the time it started, the reset time of the window it counted
\* in, the limit excesses known when it started, and the blocked_until on
\* record in the store when it started with no entry in memory (0: none)
NoDecision == [res |-> "-", at |-> 0, win |-> 0, seen |-> {}, durable |-> 0]

\* costProtection.js:12-17 COST_CONFIG, scaled: the user limit is below the
\* hourly limit and the hourly limit below the daily one
COST_CONFIG ==
    [ dailyUserLimit    |-> CostUserMax,
      hourlyGlobalLimit |-> CostUserMax + 1,
      dailyGlobalLimit  |-> CostUserMax + 2 ]

\* costProtection.js:28 CACHE_TTL, scaled
CACHE_TTL == 2 * TickMs

\* Length of an hour and of a day, scaled: an hour outlasts the cache
HourMs == 3 * TickMs
DayMs == 2 * HourMs

\* The clock of the model starts at 0 where the real one is far beyond
\* CACHE_TTL: the fetchedAt: 0 of the code (costProtection.js:24-25, 202-204)
\* is a time more than CACHE_TTL before the start
Never == 0 - CACHE_TTL

CostTypes == {"daily_global", "hourly_global", "daily_user"}

\* One number per counter type: counts read, or period starts
NoCounts == [t \in CostTypes |-> 0]

\* A request in the middlewares: pc, the locals of the running checkLimit
\* (scope, now, entry, dbBlock, the blocked_until being persisted), the
\* locals of the cost gate (the counts read, the period starts, the counter
\* types whose increment runs in the fallback and the counts it will write)
\* and the response; dec is history: what each scope decided for the request
IdleGate ==
    [ pc |-> "idle", kind |-> "-", user |-> "-", ip |-> "-",
      scope |-> "-", now |-> 0, entry |-> 0,
      dbBlock |-> [blocked |-> FALSE, blockUntil |-> 0], persistUntil |-> 0,
      cached |-> {}, counts |-> NoCounts, periods |-> NoCounts,
      fallback |-> {}, newCount |-> NoCounts,
      status |-> 0, error |-> "-", retryAfter |-> 0,
      dec |-> [s \in Scopes |-> NoDecision], cost |-> "-" ]

\* The middleware state of request r; a request that has not arrived has none
GateAt(g, r) == IF r \in DOMAIN g THEN g[r] ELSE IdleGate

\* The middlewares right after the process has started: empty maps, the
\* global counter at 0 with its first reset one window ahead
GatesMemoryIdle ==
    /\ now = 0
    /\ rateLimitStore = [byUser |-> << >>, byIp |-> << >>,
                         global |-> [count |-> 0, resetTime |-> WindowMs]]
    /\ heap = [s \in Scopes |-> << >>]
    /\ cache = [daily |-> [count |-> 0, fetchedAt |-> Never],
                hourly |-> [count |-> 0, fetchedAt |-> Never],
                users |-> << >>]
    /\ gate = << >>
    /\ exceeded = [s \in Scopes |-> {}]

\* No block on record
NoBlockRows == [t \in {"ip_minute", "user_minute"} |-> << >>]

\* The gates after a start with an empty table rate_limit_stats
GatesIdle ==
    /\ GatesMemoryIdle
    /\ blockRows = NoBlockRows
    /\ counterRows = << >>

\* ------------------------------------------------------------- requests
Idle ==
    [ pc |-> "idle", kind |-> "-", user |-> "-", url |-> NullUrl,
      isPremium |-> FALSE, newValue |-> 0, gid |-> 0,
      status |-> 0, error |-> "-", alreadyExists |-> FALSE, duplicated |-> FALSE,
      recipeId |-> 0, ranPipeline |-> FALSE, prior |-> {}, overlap |-> FALSE,
      verdict |-> "-", userMessage |-> "", message |-> "-" ]

InFlight(q) == reqs[q].pc \notin {"idle", "done"}

\* res.status(s).json({error: e, ...}); the handler is finished and its
\* locals are gone
Respond(rec, s, e) ==
    [rec EXCEPT !.pc = "done", !.status = s, !.error = e,
                !.isPremium = FALSE, !.newValue = 0, !.gid = 0,
                !.verdict = "-", !.userMessage = "",
                !.recipeId = IF s = 200 THEN rec.recipeId ELSE 0]

\* What becomes of a request whose async handler throws outside its try
\* blocks: Express 4 does not look at the promise a handler returns and no
\* response is ever sent (status 0); Express 5 passes the rejection to its
\* error handler, which answers 500.  The repository pins neither.
RejectedHandler == {0, 500}

\* History: the recipes a user has obtained for a normalized URL from
\* /analyze requests that have succeeded: the ids returned with 200 by
\* finished requests, and the rows of the user in the store from the start
Prior(u, url) ==
    { reqs[q].recipeId : q \in { q \in ReqIds :
          /\ reqs[q].pc = "done" /\ reqs[q].status = 200 /\ reqs[q].kind = "analyze"
          /\ reqs[q].user = u
          /\ normalizeTikTokUrl(reqs[q].url) = normalizeTikTokUrl(url) } }
    \cup
    { i \in 1..Len(recipes) :
          /\ recipes[i].by = 0 /\ recipes[i].user_id = u
          /\ normalizeTikTokUrl(recipes[i].source_url) = normalizeTikTokUrl(url) }

Arrived(r, kind, u, url) ==
    [Idle EXCEPT !.kind = kind, !.user = u, !.url = url,
                 !.prior = IF kind = "analyze" THEN Prior(u, url) ELSE {},
                 !.overlap = \E q \in ReqIds : q # r /\ reqs[q].user = u /\ InFlight(q)]

\* A request reaches its handler: when it has come through the middlewares
\* (next() at costProtection.js:381), or, while the middlewares are left
\* out, in the order of the request numbers
CanArrive(r) ==
    /\ reqs[r].pc = "idle"
    /\ \/ GateAt(gate, r).pc = "handler"
       \/ GateAt(gate, r).pc = "idle" /\ (r > 1 => reqs[r-1].pc # "idle")

Row(u, url, r) == [user_id |-> u, source_url |-> url, by |-> r]

\* Contents of table recipes when the server starts
InitialRecipes ==
    { << >>, << Row("u2", <<"a">>, 0) >>, << Row("u1", <<"a">>, 0) >> }

TypeOK ==
    /\ DOMAIN activeAnalyses \subseteq Requesters
    /\ \A u \in Requesters : profiles[u].free \in 0..MaxFree
    /\ Len(recipes) <= MaxReqs + 1

InitStore ==
    /\ activeAnalyses = << >>
    /\ recipes \in InitialRecipes
    /\ profiles \in [Requesters -> [is_premium : BOOLEAN, free : 0..MaxFree]]
    /\ free0 = [u \in Requesters |-> profiles[u].free]
    /\ reqs = [r \in ReqIds |-> Idle]
    /\ downloads = {}
    /\ calc = NoCall
    /\ LibAtRest

Init == InitStore /\ GatesIdle /\ faulty = TRUE

InitReliable == InitStore /\ GatesIdle /\ faulty = FALSE


\* ------------------------------------------------------ POST /analyze
\* server.js:195-198  activeAnalyses.set(userId, normalizedUrl), then the
\* await of the quota check at line 206 is issued
Acquire(m, rec) == MapSet(m, rec.user, normalizeTikTokUrl(rec.url))

\* server.js:211, 302  activeAnalyses.delete(userId) before an early return
EarlyRelease(m, rec) == MapDelete(m, rec.user)

\* A handler whose finally block does not release
Finally_Skip(m, rec) == m

\* server.js:317-323  finally: if (activeAnalyses.has(userId)) delete
Finally(m, rec) == IF MapHas(m, rec.user) THEN MapDelete(m, rec.user) ELSE m

\* server.js:84-128: validation, normalisation, the in-progress check
AnalyzeStart(r, u, url) ==
    /\ CanArrive(r)
    /\ LET rec == Arrived(r, "analyze", u, url) IN
       reqs' = [reqs EXCEPT ![r] =
                  IF MapHas(activeAnalyses, u)
                  THEN Respond(rec, 429, "ANALYSIS_IN_PROGRESS")
                  ELSE [rec EXCEPT !.pc = "ownLookup"]]
    /\ UNCHANGED <<activeAnalyses, recipes, profiles, free0, faulty, downloads, gateVars, calc, libVars>>

\* server.js:128-144: await getExistingRecipeByUrl (a store error gives
\* null); on a hit await getRecipeFromDatabase, which reads only the row
\* found, and respond alreadyExists.  The hydration is outside any try: when
\* it throws, the promise of the handler is rejected and the handler sends
\* nothing; what the client gets is up to the framework.
AnalyzeOwnLookup(r) ==
    /\ reqs[r].pc = "ownLookup"
    /\ \E storeOk \in Outcomes, hydrateOk \in Outcomes, rejected \in RejectedHandler :
         LET rec == reqs[r]
             found == IF storeOk
                      THEN getExistingRecipeByUrl(recipes, rec.user, rec.url)
                      ELSE 0
         IN reqs' = [reqs EXCEPT ![r] =
                       IF found = 0 THEN [rec EXCEPT !.pc = "globalLookup"]
                       ELSE IF hydrateOk
                       THEN Respond([rec EXCEPT !.alreadyExists = TRUE, !.recipeId = found],
                                    200, "-")
                       ELSE Respond(rec, rejected, "unhandled")]
    /\ UNCHANGED <<activeAnalyses, recipes, profiles, free0, faulty, downloads, gateVars, calc, libVars>>

\* server.js:147-148 and, when nothing is found, 195-206
AnalyzeGlobalLookup(r) ==
    /\ reqs[r].pc = "globalLookup"
    /\ LET rec == reqs[r]
           found == findRecipeByUrlGlobal(recipes, rec.url)
       IN IF found # 0
          THEN /\ reqs' = [reqs EXCEPT ![r] = [rec EXCEPT !.pc = "cloneCheck", !.gid = found]]
               /\ UNCHANGED activeAnalyses
          ELSE /\ reqs' = [reqs EXCEPT ![r] = [rec EXCEPT !.pc = "quotaCheck"]]
               /\ activeAnalyses' = Acquire(activeAnalyses, rec)
    /\ UNCHANGED <<recipes, profiles, free0, faulty, downloads, gateVars, calc, libVars>>

\* server.js:189-206: catch (duplicateError), then the normal analysis starts
CloneFailed(r) ==
    /\ reqs' = [reqs EXCEPT ![r] = [reqs[r] EXCEPT !.pc = "quotaCheck", !.recipeId = 0]]
    /\ activeAnalyses' = Acquire(activeAnalyses, reqs[r])

\* server.js:155-166: await checkUserCanGenerateRecipe on the clone path
CloneQuotaCheck(r) ==
    /\ reqs[r].pc = "cloneCheck"
    /\ \E storeOk \in Outcomes :
         LET rec == reqs[r]
             chk == checkUserCanGenerateRecipe(profiles[rec.user])
         IN IF ~storeOk
            THEN CloneFailed(r)
            ELSE /\ reqs' = [reqs EXCEPT ![r] =
                               IF ~chk.canGenerate
                               THEN Respond(rec, 403, "PREMIUM_REQUIRED")
                               ELSE [rec EXCEPT !.pc = "cloneDup", !.isPremium = chk.isPremium]]
                 /\ UNCHANGED activeAnalyses
    /\ UNCHANGED <<recipes, profiles, free0, faulty, downloads, gateVars, calc, libVars>>

\* Clone for another owner: a new row with a new id and the new user_id,
\* preserving source_url
duplicateRecipeForUser(rows, recipeId, userId, r) ==
    Append(rows, Row(userId, rows[recipeId].source_url, r))

\* server.js:180-188
CloneResponse(rec) ==
    Respond([rec EXCEPT !.alreadyExists = TRUE, !.duplicated = TRUE], 200, "-")

\* server.js:169-175: await duplicateRecipeForUser, then the debit is issued
CloneDuplicate(r) ==
    /\ reqs[r].pc = "cloneDup"
    /\ \E storeOk \in Outcomes :
         LET rec == reqs[r] IN
         IF ~storeOk
         THEN CloneFailed(r) /\ UNCHANGED recipes
         ELSE /\ recipes' = duplicateRecipeForUser(recipes, rec.gid, rec.user, r)
              /\ LET rec2 == [rec EXCEPT !.recipeId = Len(recipes) + 1] IN
                 reqs' = [reqs EXCEPT ![r] =
                            IF ~rec.isPremium
                            THEN [rec2 EXCEPT !.pc = "cloneDebitSel"]
                            ELSE CloneResponse(rec2)]
              /\ UNCHANGED activeAnalyses
    /\ UNCHANGED <<profiles, free0, faulty, downloads, gateVars, calc, libVars>>

\* database.js decrementFreeGenerations, SELECT (lines 669-688); errors are
\* swallowed (705-710)
DebitSelect(rec, storeOk) ==
    IF storeOk THEN DecrementValue(profiles[rec.user]) ELSE NoWrite

\* database.js decrementFreeGenerations, UPDATE (lines 691-702)
DebitUpdate(rec, storeOk) ==
    IF storeOk THEN [profiles EXCEPT ![rec.user].free = rec.newValue] ELSE profiles

\* server.js:174, first half of decrementFreeGenerations
CloneDebitSelect(r) ==
    /\ reqs[r].pc = "cloneDebitSel"
    /\ \E storeOk \in Outcomes :
         LET rec == reqs[r]
             v == DebitSelect(rec, storeOk)
         IN reqs' = [reqs EXCEPT ![r] =
                       IF ~v.write THEN CloneResponse(rec)
                       ELSE [rec EXCEPT !.pc = "cloneDebitUpd", !.newValue = v.value]]
    /\ UNCHANGED <<activeAnalyses, recipes, profiles, free0, faulty, downloads, gateVars, calc, libVars>>

\* server.js:174-188, second half of decrementFreeGenerations and the response
CloneDebitUpdate(r) ==
    /\ reqs[r].pc = "cloneDebitUpd"
    /\ \E storeOk \in Outcomes :
         /\ profiles' = DebitUpdate(reqs[r], storeOk)
         /\ reqs' = [reqs EXCEPT ![r] = CloneResponse(reqs[r])]
    /\ UNCHANGED <<activeAnalyses, recipes, free0, faulty, downloads, gateVars, calc, libVars>>


\* server.js:206-219: await checkUserCanGenerateRecipe inside the try; a
\* throw is answered 500 by the catch, and finally releases
AnalyzeQuotaCheck(r) ==
    /\ reqs[r].pc = "quotaCheck"
    /\ \E storeOk \in Outcomes :
         LET rec == reqs[r]
             chk == checkUserCanGenerateRecipe(profiles[rec.user])
         IN IF ~storeOk
            THEN /\ reqs' = [reqs EXCEPT ![r] = Respond(rec, 500, "error")]
                 /\ activeAnalyses' = Finally(activeAnalyses, rec)
            ELSE IF ~chk.canGenerate
            THEN /\ reqs' = [reqs EXCEPT ![r] = Respond(rec, 403, "PREMIUM_REQUIRED")]
                 /\ activeAnalyses' = Finally(EarlyRelease(activeAnalyses, rec), rec)
            ELSE /\ reqs' = [reqs EXCEPT ![r] =
                               [rec EXCEPT !.pc = "pipeline", !.isPremium = chk.isPremium]]
                 /\ UNCHANGED activeAnalyses
    /\ UNCHANGED <<recipes, profiles, free0, faulty, downloads, gateVars, calc, libVars>>

PipelineOutcomes == IF faulty THEN {"ok", "NOT_RECIPE", "error"} ELSE {"ok", "NOT_RECIPE"}

\* recipe.message of a NOT_RECIPE answer of the model, which the prompt asks
\* for (recipeAnalyzer.js:80-84, 183); "" would be an answer without one
LlmMessages == {"not a cooking video"}

DefaultNotRecipeMessage == "default"

\* server.js:306  message: error.userMessage || '...'
NotRecipeMessage(userMessage) ==
    IF userMessage # "" THEN userMessage ELSE DefaultNotRecipeMessage

\* server.js:299-309: the answer to a NOT_RECIPE error
NotRecipeResponse(rec) ==
    Respond([rec EXCEPT !.message = NotRecipeMessage(rec.userMessage)], 400, "NOT_RECIPE")

\* A cleanup that leaves the file in place
cleanup_Skip(files, f) == files

\* Platform.cleanup: if (fs.existsSync(filePath)) fs.unlinkSync(filePath)
cleanup(files, f) == files \ {f}

\* server.js:293-324: the catch and finally blocks after analyzeRecipeFromVideo
\* has thrown; rec.verdict tells what it threw
AnalyzeCaught(r, rec) ==
    IF rec.verdict = "NOT_RECIPE"
    THEN /\ reqs' = [reqs EXCEPT ![r] = NotRecipeResponse(rec)]
         /\ activeAnalyses' = Finally(EarlyRelease(activeAnalyses, rec), rec)
    ELSE /\ reqs' = [reqs EXCEPT ![r] = Respond(rec, 500, "error")]
         /\ activeAnalyses' = Finally(activeAnalyses, rec)

\* Platform.matches: urlPattern.test(url), the patterns anchored at the start
matches(prefix, url) ==
    /\ Len(url) >= Len(prefix)
    /\ SubSeq(url, 1, Len(prefix)) = prefix

\* PlatformFactory.js:23-43 detectPlatform: FALSE when it throws
detectPlatform(url) == \E prefix \in PlatformPrefixes : matches(prefix, url)

\* TikTokPlatform.js:86-114: when yt-dlp exits with a non-zero code the
\* promise rejects and extractAudio rethrows; what yt-dlp wrote under
\* audio_<timestamp> until then stays in the directory.  TRUE: a file stays
PartialFiles(outcome) == IF outcome = "error" THEN BOOLEAN ELSE {FALSE}

\* server.js:226-232 and the catch/finally of 293-324: analyzeRecipeFromVideo
\* as one step, the audio file made and removed within it (analyzer.js:49,
\* 63-65, 83-85)
AnalyzePipeline(r) ==
    /\ reqs[r].pc = "pipeline"
    /\ IF ~detectPlatform(reqs[r].url)
       THEN \* analyzer.js:31: detectPlatform throws before any provider is called
            /\ AnalyzeCaught(r, [reqs[r] EXCEPT !.verdict = "error"])
            /\ UNCHANGED downloads
       ELSE /\ \E outcome \in PipelineOutcomes, msg \in LlmMessages :
                 LET rec == [reqs[r] EXCEPT !.ranPipeline = TRUE, !.verdict = outcome,
                                            !.userMessage = IF outcome = "NOT_RECIPE"
                                                            THEN msg ELSE ""]
                 IN /\ IF outcome = "ok"
                       THEN /\ reqs' = [reqs EXCEPT ![r] =
                                          [rec EXCEPT !.pc = "save", !.verdict = "-"]]
                            /\ UNCHANGED activeAnalyses
                       ELSE AnalyzeCaught(r, rec)
                    /\ \E partial \in PartialFiles(outcome) :
                         downloads' = IF partial THEN downloads \cup {r}
                                      ELSE cleanup(downloads \cup {r}, r)
    /\ UNCHANGED <<recipes, profiles, free0, faulty, gateVars, calc, libVars>>

\* analyzer.js:31-49: detectPlatform, fetchMetadata, extractAudio; a throw
\* leaves audioPath null, so the catch at 80-88 cleans nothing, whether or
\* not the downloader had written a file
AnalyzeExtract(r) ==
    /\ reqs[r].pc = "pipeline"
    /\ \E providerOk \in Outcomes :
         LET rec == [reqs[r] EXCEPT !.ranPipeline = detectPlatform(reqs[r].url)] IN
         IF providerOk /\ detectPlatform(reqs[r].url)
         THEN /\ reqs' = [reqs EXCEPT ![r] = [rec EXCEPT !.pc = "llm"]]
              /\ downloads' = downloads \cup {r}
              /\ UNCHANGED activeAnalyses
         ELSE /\ AnalyzeCaught(r, [rec EXCEPT !.verdict = "error"])
              /\ \E partial \in PartialFiles("error") :
                   downloads' = IF partial /\ detectPlatform(reqs[r].url)
                                THEN downloads \cup {r} ELSE downloads
    /\ UNCHANGED <<recipes, profiles, free0, faulty, gateVars, calc, libVars>>

\* analyzer.js:54-59: transcribeAudio and analyzeRecipe have answered; the
\* cleanup of the audio file is awaited next, at 63-65 or in the catch at 83-85
AnalyzeLlm(r) ==
    /\ reqs[r].pc = "llm"
    /\ \E outcome \in PipelineOutcomes, msg \in LlmMessages :
         reqs' = [reqs EXCEPT ![r] =
                    [reqs[r] EXCEPT !.pc = "cleanup", !.verdict = outcome,
                                    !.userMessage = IF outcome = "NOT_RECIPE"
                                                    THEN msg ELSE ""]]
    /\ UNCHANGED <<activeAnalyses, recipes, profiles, free0, faulty, downloads, gateVars, calc, libVars>>

\* analyzer.js:63-88: await platform.cleanup(audioPath), then the result is
\* returned or the error rethrown to server.js:293
AnalyzeCleanup(r) ==
    /\ reqs[r].pc = "cleanup"
    /\ downloads' = cleanup(downloads, r)
    /\ IF reqs[r].verdict = "ok"
       THEN /\ reqs' = [reqs EXCEPT ![r] = [reqs[r] EXCEPT !.pc = "save", !.verdict = "-"]]
            /\ UNCHANGED activeAnalyses
       ELSE AnalyzeCaught(r, reqs[r])
    /\ UNCHANGED <<recipes, profiles, free0, faulty, gateVars, calc, libVars>>

\* database.js saveRecipeToDatabase: the insert into recipes (404-427)
saveRecipeToDatabase(rows, userId, sourceUrl, r) ==
    Append(rows, Row(userId, sourceUrl, r))

\* server.js:290 and finally (317-323)
AnalyzeResponse(r, rec) ==
    /\ reqs' = [reqs EXCEPT ![r] = Respond(rec, 200, "-")]
    /\ activeAnalyses' = Finally(activeAnalyses, rec)

\* server.js:236-272: await saveRecipeToDatabase, await getRecipeFromDatabase
\* (reads only the row just saved), then the debit is issued
AnalyzeSave(r) ==
    /\ reqs[r].pc = "save"
    /\ \E storeOk \in Outcomes, hydrateOk \in Outcomes :
         LET rec == [reqs[r] EXCEPT !.recipeId = Len(recipes) + 1] IN
         IF ~storeOk
         THEN /\ reqs' = [reqs EXCEPT ![r] = Respond(rec, 500, "error")]
              /\ activeAnalyses' = Finally(activeAnalyses, rec)
              /\ UNCHANGED recipes
         ELSE /\ recipes' = saveRecipeToDatabase(recipes, rec.user, rec.url, r)
              /\ IF ~hydrateOk
                 THEN /\ reqs' = [reqs EXCEPT ![r] = Respond(rec, 500, "error")]
                      /\ activeAnalyses' = Finally(activeAnalyses, rec)
                 ELSE IF ~rec.isPremium
                 THEN /\ reqs' = [reqs EXCEPT ![r] = [rec EXCEPT !.pc = "debitSel"]]
                      /\ UNCHANGED activeAnalyses
                 ELSE AnalyzeResponse(r, rec)
    /\ UNCHANGED <<profiles, free0, faulty, downloads, gateVars, calc, libVars>>

\* server.js:269, first half of decrementFreeGenerations
AnalyzeDebitSelect(r) ==
    /\ reqs[r].pc = "debitSel"
    /\ \E storeOk \in Outcomes :
         LET rec == reqs[r]
             v == DebitSelect(rec, storeOk)
         IN IF ~v.write
            THEN AnalyzeResponse(r, rec)
            ELSE /\ reqs' = [reqs EXCEPT ![r] =
                               [rec EXCEPT !.pc = "debitUpd", !.newValue = v.value]]
                 /\ UNCHANGED activeAnalyses
    /\ UNCHANGED <<recipes, profiles, free0, faulty, downloads, gateVars, calc, libVars>>

\* server.js:269-291, second half of decrementFreeGenerations and the response
AnalyzeDebitUpdate(r) ==
    /\ reqs[r].pc = "debitUpd"
    /\ \E storeOk \in Outcomes :
         /\ profiles' = DebitUpdate(reqs[r], storeOk)
         /\ AnalyzeResponse(r, reqs[r])
    /\ UNCHANGED <<recipes, free0, faulty, downloads, gateVars, calc, libVars>>

\* ----------------------------------------------------- POST /generate
\* server.js:344-400: validation (valid bodies only), quota check issued
GenerateStart(r, u) ==
    /\ CanArrive(r)
    /\ reqs' = [reqs EXCEPT ![r] = [Arrived(r, "generate", u, NullUrl) EXCEPT !.pc = "gCheck"]]
    /\ UNCHANGED <<activeAnalyses, recipes, profiles, free0, faulty, downloads, gateVars, calc, libVars>>

\* server.js:400-411 (a throw is answered 500 at 475-483)
GenerateQuotaCheck(r) ==
    /\ reqs[r].pc = "gCheck"
    /\ \E storeOk \in Outcomes :
         LET rec == reqs[r]
             chk == checkUserCanGenerateRecipe(profiles[rec.user])
         IN reqs' = [reqs EXCEPT ![r] =
                       IF ~storeOk THEN Respond(rec, 500, "error")
                       ELSE IF ~chk.canGenerate THEN Respond(rec, 403, "PREMIUM_REQUIRED")
                       ELSE [rec EXCEPT !.pc = "gPipeline", !.isPremium = chk.isPremium]]
    /\ UNCHANGED <<activeAnalyses, recipes, profiles, free0, faulty, downloads, gateVars, calc, libVars>>

\* server.js:417-429: generateRecipe (may throw) and generateRecipeImage
\* (never throws)
GeneratePipeline(r) ==
    /\ reqs[r].pc = "gPipeline"
    /\ \E providerOk \in Outcomes :
         LET rec == [reqs[r] EXCEPT !.ranPipeline = TRUE] IN
         reqs' = [reqs EXCEPT ![r] =
                    IF providerOk THEN [rec EXCEPT !.pc = "gSave"]
                    ELSE Respond(rec, 500, "error")]
    /\ UNCHANGED <<activeAnalyses, recipes, profiles, free0, faulty, downloads, gateVars, calc, libVars>>

\* server.js:433-464: await saveRecipeToDatabase, await getRecipeFromDatabase
\* (reads only the row just saved), then the debit is issued
GenerateSave(r) ==
    /\ reqs[r].pc = "gSave"
    /\ \E storeOk \in Outcomes, hydrateOk \in Outcomes :
         LET rec == [reqs[r] EXCEPT !.recipeId = Len(recipes) + 1] IN
         IF ~storeOk
         THEN /\ reqs' = [reqs EXCEPT ![r] = Respond(rec, 500, "error")]
              /\ UNCHANGED recipes
         ELSE /\ recipes' = saveRecipeToDatabase(recipes, rec.user, NullUrl, r)
              /\ reqs' = [reqs EXCEPT ![r] =
                            IF ~hydrateOk THEN Respond(rec, 500, "error")
                            ELSE IF ~rec.isPremium THEN [rec EXCEPT !.pc = "gDebitSel"]
                            ELSE Respond(rec, 200, "-")]
    /\ UNCHANGED <<activeAnalyses, profiles, free0, faulty, downloads, gateVars, calc, libVars>>

\* server.js:461, first half of decrementFreeGenerations
GenerateDebitSelect(r) ==
    /\ reqs[r].pc = "gDebitSel"
    /\ \E storeOk \in Outcomes :
         LET rec == reqs[r]
             v == DebitSelect(rec, storeOk)
         IN reqs' = [reqs EXCEPT ![r] =
                       IF ~v.write THEN Respond(rec, 200, "-")
                       ELSE [rec EXCEPT !.pc = "gDebitUpd", !.newValue = v.value]]
    /\ UNCHANGED <<activeAnalyses, recipes, profiles, free0, faulty, downloads, gateVars, calc, libVars>>

\* server.js:461-473, second half of decrementFreeGenerations and the response
GenerateDebitUpdate(r) ==
    /\ reqs[r].pc = "gDebitUpd"
    /\ \E storeOk \in Outcomes :
         /\ profiles' = DebitUpdate(reqs[r], storeOk)
         /\ reqs' = [reqs EXCEPT ![r] = Respond(reqs[r], 200, "-")]
    /\ UNCHANGED <<activeAnalyses, recipes, free0, faulty, downloads, gateVars, calc, libVars>>

\* ---------------------------------------------------------- rate gate
GateCanArrive(r) ==
    /\ GateAt(gate, r).pc = "idle"
    /\ r > 1 => GateAt(gate, r-1).pc # "idle"

\* rateLimiter.js:219-237
checkGlobalLimit(g, config, t) ==
    IF g.resetTime < t
    THEN [global |-> [count |-> 1, resetTime |-> t + config.windowMs], allowed |-> TRUE]
    ELSE [global  |-> [g EXCEPT !.count = g.count + 1],
          allowed |-> ~(g.count + 1 > config.maxRequests)]

StoreOf(st, scope) == IF scope = "ip" THEN st.byIp ELSE st.byUser

SetStore(st, scope, m) ==
    IF scope = "ip" THEN [st EXCEPT !.byIp = m] ELSE [st EXCEPT !.byUser = m]

KeyOf(rec, scope) == IF scope = "ip" THEN rec.ip ELSE rec.user

\* store.get(key): the entry object, 0 for undefined
StoreGet(st, scope, key) ==
    IF MapHas(StoreOf(st, scope), key) THEN StoreOf(st, scope)[key] ELSE 0

\* Entry objects that nothing refers to any more are dropped from the heap
Referenced(st, g, scope) ==
    { StoreOf(st, scope)[k] : k \in DOMAIN StoreOf(st, scope) }
    \cup { GateAt(g, q).entry : q \in { q \in GateIds :
              GateAt(g, q).pc \in {"rateDb", "rateResume"} /\ GateAt(g, q).scope = scope } }

Collect(hp, st, g) ==
    [s \in Scopes |-> [i \in Referenced(st, g, s) \ {0} |-> hp[s][i]]]

\* The heap with the object id of a scope written
HeapSet(hp, s, id, obj) == [hp EXCEPT ![s] = MapSet(@, id, obj)]

\* rateLimiter.js:270-278, 286-297: the denial of the middleware; the code
\* is chosen from the blocked flag of the result of checkLimit
DenialCode(scope, blocked) ==
    IF scope = "ip"
    THEN (IF blocked THEN "IP_BLOCKED" ELSE "IP_RATE_LIMITED")
    ELSE (IF blocked THEN "USER_BLOCKED" ELSE "RATE_LIMITED")

\* The response is sent; the locals of the middleware are gone
GateRespond(rec, s, e, retry) ==
    [rec EXCEPT !.pc = "done", !.status = s, !.error = e, !.retryAfter = retry,
                !.scope = "-", !.now = 0, !.entry = 0, !.persistUntil = 0,
                !.dbBlock = [blocked |-> FALSE, blockUntil |-> 0]]

\* checkLimit returned { allowed: false, resetIn, blocked } at this scope
RateDeny(rec, scope, why, resetIn, blocked) ==
    GateRespond([rec EXCEPT !.dec[scope].res = why],
                429, DenialCode(scope, blocked), resetIn)

\* rateLimiter.js:139-154: the start of checkLimit up to the durable lookup
StartCheck(rec, scope) ==
    LET key == KeyOf(rec, scope)
        e   == StoreGet(rateLimitStore, scope, key)
        rows == blockRows[TypeOf(scope)]
        rc  == [rec EXCEPT !.scope = scope, !.now = now, !.entry = e,
                           !.dec[scope].at = now,
                           !.dec[scope].seen = exceeded[scope],
                           !.dec[scope].durable =
                               IF e = 0 /\ MapHas(rows, key) /\ rows[key] > now
                               THEN rows[key] ELSE 0]
    IN IF e # 0 /\ heap[scope][e].blocked /\ heap[scope][e].blockUntil > now
       THEN RateDeny(rc, scope, "memBlock",
                     Ceil(heap[scope][e].blockUntil - now, 1000), TRUE)
       ELSE [rc EXCEPT !.pc = "rateDb"]

\* rateLimiter.js:249-267: checkGlobalLimit, then checkLimit on the IP
RateArrive(r, kind, u, ip) ==
    /\ GateCanArrive(r)
    /\ LET cfg == RateConfig(kind)
           g   == checkGlobalLimit(rateLimitStore.global, cfg.global, now)
           rec == [IdleGate EXCEPT !.kind = kind, !.user = u, !.ip = ip]
       IN /\ rateLimitStore' = [rateLimitStore EXCEPT !.global = g.global]
          /\ gate' = MapSet(gate, r,
                        IF ~g.allowed
                        THEN GateRespond(rec, 503, "SERVER_OVERLOADED", 0)
                        ELSE StartCheck(rec, "ip"))
    /\ now' = now
    /\ UNCHANGED <<heap, blockRows, counterRows, cache, exceeded>>
    /\ UNCHANGED <<activeAnalyses, recipes, profiles, reqs, free0, faulty, downloads, calc, libVars>>

\* A lookup that never finds a block
checkBlockedInDb_Never(rows, type, identifier, t, storeOk) ==
    [blocked |-> FALSE, blockUntil |-> 0]

\* rateLimiter.js:77-104 checkBlockedInDb: the query runs at the store; the
\* timestamp it compares with was taken when checkLimit started
checkBlockedInDb(rows, type, identifier, t, storeOk) ==
    IF storeOk /\ MapHas(rows[type], identifier) /\ rows[type][identifier] > t
    THEN [blocked |-> TRUE, blockUntil |-> rows[type][identifier]]
    ELSE [blocked |-> FALSE, blockUntil |-> 0]

RateDbLookup(r) ==
    /\ GateAt(gate, r).pc = "rateDb"
    /\ \E storeOk \in Outcomes :
         LET rec == GateAt(gate, r) IN
         gate' = MapSet(gate, r,
                    [rec EXCEPT !.pc = "rateResume",
                                !.dbBlock = checkBlockedInDb(blockRows, TypeOf(rec.scope),
                                               KeyOf(rec, rec.scope), rec.now, storeOk)])
    /\ now' = now
    /\ UNCHANGED <<rateLimitStore, heap, blockRows, counterRows, cache, exceeded>>
    /\ UNCHANGED <<activeAnalyses, recipes, profiles, reqs, free0, faulty, downloads, calc, libVars>>

\* After checkLimit allowed at a scope: the IP check is followed by the user
\* check (rateLimiter.js:281-283), the user check by next() (300-306)
RateAllowed(rec, scope, win) ==
    LET rc == [rec EXCEPT !.dec[scope].res = "allowed", !.dec[scope].win = win]
    IN IF scope = "ip" THEN StartCheck(rc, "user")
       ELSE [rc EXCEPT !.pc = "next", !.scope = "-", !.now = 0, !.entry = 0,
                       !.dbBlock = [blocked |-> FALSE, blockUntil |-> 0]]

\* rateLimiter.js:155-214: checkLimit after the durable lookup
RateResume(r) ==
    /\ GateAt(gate, r).pc = "rateResume"
    /\ LET rec   == GateAt(gate, r)
           s     == rec.scope
           key   == KeyOf(rec, s)
           cfg   == RateConfig(rec.kind)[s]
           e     == rec.entry
           m     == StoreOf(rateLimitStore, s)
       IN IF rec.dbBlock.blocked
          THEN \* 155-168: mirror the stored block
               LET id  == IF e = 0 THEN r ELSE e
                   old == IF e = 0
                          THEN [NoEntry EXCEPT !.resetTime = rec.now + cfg.windowMs]
                          ELSE heap[s][e]
                   obj == [old EXCEPT !.blocked = TRUE,
                                      !.blockUntil = rec.dbBlock.blockUntil]
                   st2 == SetStore(rateLimitStore, s, MapSet(m, key, id))
                   g2  == MapSet(gate, r,
                             RateDeny(rec, s, "dbBlock",
                                      Ceil(rec.dbBlock.blockUntil - rec.now, 1000), TRUE))
               IN /\ rateLimitStore' = st2
                  /\ gate' = g2
                  /\ heap' = Collect(HeapSet(heap, s, id, obj), st2, g2)
                  /\ UNCHANGED exceeded
          ELSE IF e = 0 \/ heap[s][e].resetTime < rec.now
          THEN \* 170-185: new entry or expired window
               LET obj == [count |-> 1, resetTime |-> rec.now + cfg.windowMs,
                           blocked |-> FALSE, blockUntil |-> 0]
                   st2 == SetStore(rateLimitStore, s, MapSet(m, key, r))
                   g2  == MapSet(gate, r, RateAllowed(rec, s, obj.resetTime))
               IN /\ rateLimitStore' = st2
                  /\ gate' = g2
                  /\ heap' = Collect(HeapSet(heap, s, r, obj), st2, g2)
                  /\ UNCHANGED exceeded
          ELSE \* 187-213: increment the entry held since before the lookup
               LET cnt == heap[s][e].count + 1
                   st2 == SetStore(rateLimitStore, s, MapSet(m, key, e))
               IN IF cnt > cfg.maxRequests
                  THEN LET obj == [heap[s][e] EXCEPT !.count = cnt, !.blocked = TRUE,
                                       !.blockUntil = rec.now + cfg.blockDurationMs]
                           g2  == MapSet(gate, r,
                                     [rec EXCEPT !.pc = "ratePersist", !.entry = 0,
                                                 !.persistUntil = now + cfg.blockDurationMs,
                                                 !.dec[s].res = "exceeded",
                                                 !.dec[s].win = heap[s][e].resetTime])
                       IN /\ rateLimitStore' = st2
                          /\ gate' = g2
                          /\ heap' = Collect(HeapSet(heap, s, e, obj), st2, g2)
                          /\ exceeded' = [exceeded EXCEPT ![s] = @ \cup {rec.now}]
                  ELSE LET g2 == MapSet(gate, r,
                                     RateAllowed(rec, s, heap[s][e].resetTime))
                       IN /\ rateLimitStore' = st2
                          /\ gate' = g2
                          /\ heap' = Collect(HeapSet(heap, s, e, [heap[s][e] EXCEPT !.count = cnt]), st2, g2)
                          /\ UNCHANGED exceeded
    /\ now' = now
    /\ UNCHANGED <<blockRows, counterRows, cache>>
    /\ UNCHANGED <<activeAnalyses, recipes, profiles, reqs, free0, faulty, downloads, calc, libVars>>

\* rateLimiter.js:112-134 persistBlock: the upsert; among the rows of an
\* identifier the lookup reads the latest blocked_until
persistBlock(rows, type, identifier, blockUntil) ==
    [rows EXCEPT ![type] =
        MapSet(@, identifier,
               IF MapHas(@, identifier) THEN Max2(@[identifier], blockUntil)
               ELSE blockUntil)]

\* rateLimiter.js:197-204: await persistBlock (errors are swallowed), then
\* checkLimit returns and the middleware answers
RatePersist(r) ==
    /\ GateAt(gate, r).pc = "ratePersist"
    /\ \E storeOk \in Outcomes :
         LET rec == GateAt(gate, r)
             s   == rec.scope
             cfg == RateConfig(rec.kind)[s]
         IN /\ blockRows' = IF storeOk
                            THEN persistBlock(blockRows, TypeOf(s), KeyOf(rec, s),
                                              rec.persistUntil)
                            ELSE blockRows
            /\ gate' = MapSet(gate, r,
                          RateDeny(rec, s, "exceeded",
                                   Ceil(cfg.blockDurationMs, 1000), TRUE))
    /\ now' = now
    /\ UNCHANGED <<rateLimitStore, heap, counterRows, cache, exceeded>>
    /\ UNCHANGED <<activeAnalyses, recipes, profiles, reqs, free0, faulty, downloads, calc, libVars>>

\* rateLimiter.js:41-58 cleanupMemoryStore, run by setInterval
Expired(obj, t) ==
    obj.resetTime < t /\ (~obj.blocked \/ obj.blockUntil < t)

cleanupMemoryStore(st, hp, t) ==
    LET keep(scope) == { k \in DOMAIN StoreOf(st, scope) :
                            ~Expired(hp[scope][StoreOf(st, scope)[k]], t) }
    IN [st EXCEPT !.byUser = [k \in keep("user") |-> st.byUser[k]],
                  !.byIp   = [k \in keep("ip")   |-> st.byIp[k]]]

Sweep ==
    /\ rateLimitStore' = cleanupMemoryStore(rateLimitStore, heap, now)
    /\ rateLimitStore' # rateLimitStore
    /\ heap' = Collect(heap, rateLimitStore', gate)
    /\ now' = now
    /\ UNCHANGED <<blockRows, counterRows, cache, gate, exceeded>>
    /\ UNCHANGED <<activeAnalyses, recipes, profiles, reqs, free0, faulty, downloads, calc, libVars>>

\* Time passes
Tick ==
    /\ now < MaxTicks * TickMs
    /\ now' = now + TickMs
    /\ UNCHANGED <<rateLimitStore, heap, blockRows, counterRows, cache, gate, exceeded>>
    /\ UNCHANGED <<activeAnalyses, recipes, profiles, reqs, free0, faulty, downloads, calc, libVars>>

\* The handlers at rest while only the gates are followed
HandlersAtRest ==
    /\ activeAnalyses = << >>
    /\ recipes = << >>
    /\ profiles = [u \in Requesters |-> [is_premium |-> TRUE, free |-> 0]]
    /\ free0 = [u \in Requesters |-> 0]
    /\ reqs = [r \in ReqIds |-> Idle]
    /\ downloads = {}
    /\ LibAtRest

HandlersIdle == HandlersAtRest /\ calc = NoCall

NextRate ==
    \/ \E r \in GateIds, u \in RateUsers, ip \in Ips : RateArrive(r, "analyze", u, ip)
    \/ \E r \in GateIds : RateDbLookup(r)
    \/ \E r \in GateIds : RateResume(r)
    \/ \E r \in GateIds : RatePersist(r)
    \/ Sweep
    \/ Tick

\* The rate gate of /analyze from a start with no block on record
InitRate == HandlersIdle /\ GatesIdle /\ faulty = FALSE

SpecRate == InitRate /\ [][NextRate]_vars

\* A start while a block of an earlier run of the process is on record
BlockedAtStart ==
    { [NoBlockRows EXCEPT ![t] = MapSet(@, k, WindowMs + TickMs)] :
        t \in {"ip_minute"}, k \in Ips }
    \cup
    { [NoBlockRows EXCEPT ![t] = MapSet(@, k, WindowMs + TickMs)] :
        t \in {"user_minute"}, k \in RateUsers }

InitRestart ==
    /\ HandlersIdle /\ GatesMemoryIdle /\ faulty = FALSE
    /\ blockRows \in BlockedAtStart
    /\ counterRows = << >>

\* The rate gate after a restart: as NextRate, for the first requests
NextRestart ==
    \/ \E r \in 1..MaxRestartReqs, u \in RateUsers, ip \in Ips :
          RateArrive(r, "analyze", u, ip)
    \/ \E r \in GateIds : RateDbLookup(r)
    \/ \E r \in GateIds : RateResume(r)
    \/ \E r \in GateIds : RatePersist(r)
    \/ Sweep
    \/ Tick

SpecRestart == InitRestart /\ [][NextRestart]_vars

\* ---------------------------------------------------------- cost gate
\* costProtection.js:35-42 getPeriodStart, at time t
getPeriodStart(period, t) ==
    IF period = "daily" THEN (t \div DayMs) * DayMs ELSE (t \div HourMs) * HourMs

PeriodOf(type) == IF type = "hourly_global" THEN "hourly" ELSE "daily"

\* identifier || '' (costProtection.js:68, 130)
IdentifierOf(type, u) == IF type = "daily_user" THEN u ELSE ""

LimitOf(type) ==
    IF type = "daily_user" THEN COST_CONFIG.dailyUserLimit
    ELSE IF type = "hourly_global" THEN COST_CONFIG.hourlyGlobalLimit
    ELSE COST_CONFIG.dailyGlobalLimit

\* rate_limit_stats.sql: unique (type, identifier, period_start)
CounterKey(type, u, periodStart) == <<type, IdentifierOf(type, u), periodStart>>

CountOf(rows, key) == IF key \in DOMAIN rows THEN rows[key] ELSE 0

\* costProtection.js:60-115 getOrCreateCounter for a set of keys: a missing
\* row is inserted with count 0
getOrCreateCounter(rows, keys) ==
    [k \in (DOMAIN rows) \cup keys |-> CountOf(rows, k)]

\* rate_limit_stats.sql:65-92 increment_rate_limit: insert with count 1, on
\* conflict count = count + 1
increment_rate_limit(rows, key) == MapSet(rows, key, CountOf(rows, key) + 1)

\* The cache entry getCountWithCache looks at (costProtection.js:166-177)
CacheEntry(c, type, u) ==
    IF type = "daily_global" THEN c.daily
    ELSE IF type = "hourly_global" THEN c.hourly
    ELSE IF MapHas(c.users, u) THEN c.users[u]
    ELSE [count |-> 0, fetchedAt |-> Never]

\* fetchedAt > now - CACHE_TTL
Fresh(entry, t) == entry.fetchedAt > t - CACHE_TTL

\* costProtection.js:184-190
CachePut(c, type, u, count, t) ==
    LET entry == [count |-> count, fetchedAt |-> t] IN
    IF type = "daily_global" THEN [c EXCEPT !.daily = entry]
    ELSE IF type = "hourly_global" THEN [c EXCEPT !.hourly = entry]
    ELSE [c EXCEPT !.users = MapSet(@, u, entry)]

\* costProtection.js:200-208
invalidateCache(c, type, identifier) ==
    IF type = "daily_global" THEN [c EXCEPT !.daily.fetchedAt = Never]
    ELSE IF type = "hourly_global" THEN [c EXCEPT !.hourly.fetchedAt = Never]
    ELSE [c EXCEPT !.users = MapDelete(@, identifier)]

\* A check that looks at the user's counter first
CostDecision_UserFirst(counts) ==
    IF counts["daily_user"] >= COST_CONFIG.dailyUserLimit THEN "USER_DAILY_LIMIT_REACHED"
    ELSE IF counts["hourly_global"] >= COST_CONFIG.hourlyGlobalLimit THEN "HOURLY_LIMIT_REACHED"
    ELSE IF counts["daily_global"] >= COST_CONFIG.dailyGlobalLimit THEN "DAILY_LIMIT_REACHED"
    ELSE "allowed"

\* costProtection.js:228-259: the three checks in their order
CostDecision(counts) ==
    IF counts["hourly_global"] >= COST_CONFIG.hourlyGlobalLimit THEN "HOURLY_LIMIT_REACHED"
    ELSE IF counts["daily_global"] >= COST_CONFIG.dailyGlobalLimit THEN "DAILY_LIMIT_REACHED"
    ELSE IF counts["daily_user"] >= COST_CONFIG.dailyUserLimit THEN "USER_DAILY_LIMIT_REACHED"
    ELSE "allowed"

\* The middleware has answered or called next(); its locals are gone
CostLeave(rec, pc, outcome) ==
    [rec EXCEPT !.pc = pc, !.cost = outcome, !.now = 0, !.cached = {},
                !.counts = NoCounts, !.periods = NoCounts,
                !.fallback = {}, !.newCount = NoCounts]

\* costProtection.js:365-375
CostDeny(rec, reason) ==
    [CostLeave(rec, "done", reason) EXCEPT !.status = 429, !.error = reason]

\* A store error that ends in a denial
CostFailOpen_Deny(rec) == CostDeny(rec, "DB_ERROR")

\* costProtection.js:287-295, 378-381: the catch of checkAndIncrementCost
\* returns allowed: true and the middleware calls next()
CostFailOpen(rec) == CostLeave(rec, "handler", "failOpen")

\* costProtection.js:352-363, 216-226, 160-177: the middleware starts, and
\* each getCountWithCache answers from a fresh cache entry or queries the store
CostArrive(r, u) ==
    /\ GateCanArrive(r)
    /\ LET hit == { t \in CostTypes : Fresh(CacheEntry(cache, t, u), now) }
       IN gate' = MapSet(gate, r,
                     [IdleGate EXCEPT
                        !.kind = "analyze", !.user = u, !.pc = "costRead", !.now = now,
                        !.cached = hit,
                        !.counts = [t \in CostTypes |->
                                      IF t \in hit THEN CacheEntry(cache, t, u).count ELSE 0],
                        !.periods = [t \in CostTypes |-> getPeriodStart(PeriodOf(t), now)]])
    /\ now' = now
    /\ UNCHANGED <<rateLimitStore, heap, blockRows, counterRows, cache, exceeded>>
    /\ UNCHANGED <<activeAnalyses, recipes, profiles, reqs, free0, faulty, downloads, calc, libVars>>

\* costProtection.js:180: the getOrCreateCounter queries run at the store; a
\* store error is caught at 287-295 and the request is let through
CostDbRead(r) ==
    /\ GateAt(gate, r).pc = "costRead"
    /\ \E storeOk \in Outcomes :
         LET rec    == GateAt(gate, r)
             misses == CostTypes \ rec.cached
             key(t) == CounterKey(t, rec.user, rec.periods[t])
         IN IF ~storeOk /\ misses # {}
            THEN /\ gate' = MapSet(gate, r, CostFailOpen(rec))
                 /\ UNCHANGED counterRows
            ELSE /\ counterRows' = getOrCreateCounter(counterRows, { key(t) : t \in misses })
                 /\ gate' = MapSet(gate, r,
                               [rec EXCEPT !.pc = "costResume",
                                           !.counts = [t \in CostTypes |->
                                               IF t \in misses
                                               THEN CountOf(counterRows, key(t))
                                               ELSE rec.counts[t]]])
    /\ now' = now
    /\ UNCHANGED <<rateLimitStore, heap, blockRows, cache, exceeded>>
    /\ UNCHANGED <<activeAnalyses, recipes, profiles, reqs, free0, faulty, downloads, calc, libVars>>

\* The cache after the counts read from the store are put into it with the
\* time taken when getCountWithCache started (costProtection.js:161, 184-190)
CacheAfterRead(c, rec) ==
    LET put(cc, t) == IF t \in rec.cached THEN cc
                      ELSE CachePut(cc, t, rec.user, rec.counts[t], rec.now)
    IN put(put(put(c, "daily_global"), "hourly_global"), "daily_user")

\* costProtection.js:181-259: the counts are cached and checked; a denial is
\* answered after getStats, which only reads
CostResume(r) ==
    /\ GateAt(gate, r).pc = "costResume"
    /\ LET rec      == GateAt(gate, r)
           decision == CostDecision(rec.counts)
       IN /\ cache' = CacheAfterRead(cache, rec)
          /\ gate' = MapSet(gate, r,
                        IF decision = "allowed" THEN [rec EXCEPT !.pc = "costInc"]
                        ELSE CostDeny(rec, decision))
    /\ now' = now
    /\ UNCHANGED <<rateLimitStore, heap, blockRows, counterRows, exceeded>>
    /\ UNCHANGED <<activeAnalyses, recipes, profiles, reqs, free0, faulty, downloads, calc, libVars>>

\* The increment_rate_limit calls that can come back with an error: any of
\* them when the store can fail
RpcFailures == IF faulty THEN SUBSET CostTypes ELSE {{}}

\* increment_rate_limit on each key of a set (the rows differ, the order
\* does not matter)
RECURSIVE IncrementAll(_, _)
IncrementAll(rows, keys) ==
    IF keys = {} THEN rows
    ELSE LET k == CHOOSE x \in keys : TRUE
         IN IncrementAll(increment_rate_limit(rows, k), keys \ {k})

\* costProtection.js:269-271: the three cache entries invalidated
InvalidateAll(c, u) ==
    invalidateCache(
        invalidateCache(
            invalidateCache(c, "daily_global", ""),
            "hourly_global", ""),
        "daily_user", u)

\* costProtection.js:262-285, 378-381: the three increment_rate_limit calls
\* with the period starts taken at 218-219, the cache entries invalidated,
\* getStats, next(); a call that comes back with an error goes on in the
\* fallback of incrementCounter (132-147)
CostIncrement(r) ==
    /\ GateAt(gate, r).pc = "costInc"
    /\ \E failed \in RpcFailures :
         LET rec    == GateAt(gate, r)
             key(t) == CounterKey(t, rec.user, rec.periods[t])
         IN /\ counterRows' =
                  IncrementAll(counterRows, { key(t) : t \in CostTypes \ failed })
            /\ IF failed = {}
               THEN /\ cache' = InvalidateAll(cache, rec.user)
                    /\ gate' = MapSet(gate, r, CostLeave(rec, "handler", "allowed"))
               ELSE /\ cache' = cache
                    /\ gate' = MapSet(gate, r,
                                  [rec EXCEPT !.pc = "costFbRead", !.fallback = failed])
    /\ now' = now
    /\ UNCHANGED <<rateLimitStore, heap, blockRows, exceeded>>
    /\ UNCHANGED <<activeAnalyses, recipes, profiles, reqs, free0, faulty, downloads, calc, libVars>>

\* costProtection.js:135-136: the fallback reads the counter with
\* getOrCreateCounter and adds 1; an error of that read is thrown, caught at
\* 287-295, and the request is let through
CostFallbackRead(r) ==
    /\ GateAt(gate, r).pc = "costFbRead"
    /\ \E storeOk \in Outcomes :
         LET rec    == GateAt(gate, r)
             key(t) == CounterKey(t, rec.user, rec.periods[t])
         IN IF ~storeOk
            THEN /\ gate' = MapSet(gate, r, CostFailOpen(rec))
                 /\ UNCHANGED counterRows
            ELSE /\ counterRows' =
                       getOrCreateCounter(counterRows, { key(t) : t \in rec.fallback })
                 /\ gate' = MapSet(gate, r,
                               [rec EXCEPT !.pc = "costFbUpdate",
                                           !.newCount = [t \in CostTypes |->
                                               IF t \in rec.fallback
                                               THEN CountOf(counterRows, key(t)) + 1
                                               ELSE 0]])
    /\ now' = now
    /\ UNCHANGED <<rateLimitStore, heap, blockRows, cache, exceeded>>
    /\ UNCHANGED <<activeAnalyses, recipes, profiles, reqs, free0, faulty, downloads, calc, libVars>>

\* update({ count: newCount }) on the rows of a set of counter types
RECURSIVE UpdateCounts(_, _, _, _)
UpdateCounts(rows, types, rec, written) ==
    IF types = {} THEN rows
    ELSE LET t == CHOOSE x \in types : TRUE
             k == CounterKey(t, rec.user, rec.periods[t])
         IN UpdateCounts(IF t \in written THEN MapSet(rows, k, rec.newCount[t]) ELSE rows,
                         types \ {t}, rec, written)

\* costProtection.js:138-146, 269-285: the fallback writes the count it
\* computed; the result of the update is not looked at, so an update that
\* fails leaves the row as it is; then the cache entries are invalidated,
\* getStats, next()
CostFallbackUpdate(r) ==
    /\ GateAt(gate, r).pc = "costFbUpdate"
    /\ \E written \in (IF faulty THEN SUBSET GateAt(gate, r).fallback
                                  ELSE {GateAt(gate, r).fallback}) :
         LET rec == GateAt(gate, r)
         IN /\ counterRows' = UpdateCounts(counterRows, rec.fallback, rec, written)
            /\ cache' = InvalidateAll(cache, rec.user)
            /\ gate' = MapSet(gate, r, CostLeave(rec, "handler", "allowed"))
    /\ now' = now
    /\ UNCHANGED <<rateLimitStore, heap, blockRows, exceeded>>
    /\ UNCHANGED <<activeAnalyses, recipes, profiles, reqs, free0, faulty, downloads, calc, libVars>>

\* server.js:83: the handler of /analyze runs after next() of costProtection
HandlerStart(r) ==
    /\ GateAt(gate, r).pc = "handler"
    /\ \E url \in Urls : AnalyzeStart(r, GateAt(gate, r).user, url)

\* Counters of the running hour and day left by earlier requests
CountersAtStart ==
    { [k \in {CounterKey("daily_global", "", 0), CounterKey("hourly_global", "", 0)} |->
          IF k[1] = "daily_global" THEN d ELSE h] :
        h \in 0..COST_CONFIG.hourlyGlobalLimit, d \in 0..COST_CONFIG.dailyGlobalLimit }

\* The cost gate alone, from a start with counters on record
InitCostGate ==
    /\ HandlersIdle /\ GatesMemoryIdle /\ faulty = FALSE
    /\ blockRows = NoBlockRows
    /\ counterRows \in { rows \in CountersAtStart :
                            rows[CounterKey("hourly_global", "", 0)]
                               <= rows[CounterKey("daily_global", "", 0)] }

NextCostGate ==
    \/ \E r \in 1..MaxCostReqs, u \in RateUsers : CostArrive(r, u)
    \/ \E r \in GateIds : CostDbRead(r)
    \/ \E r \in GateIds : CostResume(r)
    \/ \E r \in GateIds : CostIncrement(r)
    \/ Tick

SpecCostGate == InitCostGate /\ [][NextCostGate]_vars

\* The cost gate alone, the store failing at will, from an empty table
InitCostFaulty == HandlersIdle /\ GatesIdle /\ faulty = TRUE

NextCostFaulty ==
    \/ \E r \in 1..MaxCostReqs, u \in RateUsers : CostArrive(r, u)
    \/ \E r \in GateIds : CostDbRead(r)
    \/ \E r \in GateIds : CostResume(r)
    \/ \E r \in GateIds : CostIncrement(r)
    \/ \E r \in GateIds : CostFallbackRead(r)
    \/ \E r \in GateIds : CostFallbackUpdate(r)
    \/ Tick

SpecCostFaulty == InitCostFaulty /\ [][NextCostFaulty]_vars

\* As NextCostFaulty, for the first requests
NextCostOutage ==
    \/ \E r \in 1..MaxOutageReqs, u \in RateUsers : CostArrive(r, u)
    \/ \E r \in GateIds : CostDbRead(r)
    \/ \E r \in GateIds : CostResume(r)
    \/ \E r \in GateIds : CostIncrement(r)
    \/ \E r \in GateIds : CostFallbackRead(r)
    \/ \E r \in GateIds : CostFallbackUpdate(r)
    \/ Tick

SpecCostOutage == InitCostFaulty /\ [][NextCostOutage]_vars

\* POST /analyze behind the cost gate, the store answering
NextCost ==
    \/ \E r \in ReqIds, u \in Requesters : CostArrive(r, u)
    \/ \E r \in ReqIds :
          \/ CostDbRead(r)
          \/ CostResume(r)
          \/ CostIncrement(r)
          \/ HandlerStart(r)
          \/ AnalyzeOwnLookup(r)
          \/ AnalyzeGlobalLookup(r)
          \/ CloneQuotaCheck(r)
          \/ CloneDuplicate(r)
          \/ CloneDebitSelect(r)
          \/ CloneDebitUpdate(r)
          \/ AnalyzeQuotaCheck(r)
          \/ AnalyzePipeline(r)
          \/ AnalyzeSave(r)
          \/ AnalyzeDebitSelect(r)
          \/ AnalyzeDebitUpdate(r)
    \/ Tick

SpecCost == InitReliable /\ [][NextCost]_vars

\* ------------------------------------------------------- specification
Next ==
    \E r \in ReqIds :
        \/ \E u \in Requesters, url \in Urls : AnalyzeStart(r, u, url)
        \/ AnalyzeOwnLookup(r)
        \/ AnalyzeGlobalLookup(r)
        \/ CloneQuotaCheck(r)
        \/ CloneDuplicate(r)
        \/ CloneDebitSelect(r)
        \/ CloneDebitUpdate(r)
        \/ AnalyzeQuotaCheck(r)
        \/ AnalyzePipeline(r)
        \/ AnalyzeSave(r)
        \/ AnalyzeDebitSelect(r)
        \/ AnalyzeDebitUpdate(r)
        \/ \E u \in Requesters : GenerateStart(r, u)
        \/ GenerateQuotaCheck(r)
        \/ GeneratePipeline(r)
        \/ GenerateSave(r)
        \/ GenerateDebitSelect(r)
        \/ GenerateDebitUpdate(r)

Spec == Init /\ [][Next]_vars

\* The same handlers when every store and provider call succeeds
SpecReliable == InitReliable /\ [][Next]_vars

\* POST /analyze for URLs of supported and of unsupported platforms, every
\* store and provider call succeeding
NextAnyUrl ==
    \E r \in ReqIds :
        \/ \E u \in Requesters, url \in Urls \cup UnsupportedUrls : AnalyzeStart(r, u, url)
        \/ AnalyzeOwnLookup(r)
        \/ AnalyzeGlobalLookup(r)
        \/ CloneQuotaCheck(r)
        \/ CloneDuplicate(r)
        \/ CloneDebitSelect(r)
        \/ CloneDebitUpdate(r)
        \/ AnalyzeQuotaCheck(r)
        \/ AnalyzePipeline(r)
        \/ AnalyzeSave(r)
        \/ AnalyzeDebitSelect(r)
        \/ AnalyzeDebitUpdate(r)

SpecAnyUrl == InitReliable /\ [][NextAnyUrl]_vars

\* The handlers with analyzeRecipeFromVideo followed await by await
NextPipeline ==
    \E r \in ReqIds :
        \/ \E u \in Requesters, url \in Urls : AnalyzeStart(r, u, url)
        \/ AnalyzeOwnLookup(r)
        \/ AnalyzeGlobalLookup(r)
        \/ CloneQuotaCheck(r)
        \/ CloneDuplicate(r)
        \/ CloneDebitSelect(r)
        \/ CloneDebitUpdate(r)
        \/ AnalyzeQuotaCheck(r)
        \/ AnalyzeExtract(r)
        \/ AnalyzeLlm(r)
        \/ AnalyzeCleanup(r)
        \/ AnalyzeSave(r)
        \/ AnalyzeDebitSelect(r)
        \/ AnalyzeDebitUpdate(r)

SpecPipeline == InitReliable /\ [][NextPipeline]_vars

\* The same when store and provider calls can fail
SpecPipelineFaulty == Init /\ [][NextPipeline]_vars


\* ------------------------------------------------------------- claims
\* Positions of /analyze after the single-flight entry is recorded (196)
AnalysisPcs == {"quotaCheck", "pipeline", "llm", "cleanup", "save", "debitSel", "debitUpd"}

\* Positions of /analyze on the cross-user clone path (148-188)
ClonePcs == {"cloneCheck", "cloneDup", "cloneDebitSel", "cloneDebitUpd"}

SameKey(r, q) ==
    /\ reqs[r].kind = "analyze" /\ reqs[q].kind = "analyze"
    /\ reqs[r].user = reqs[q].user
    /\ normalizeTikTokUrl(reqs[r].url) = normalizeTikTokUrl(reqs[q].url)

\* A 200 response to billable work: new analysis, cross-user clone, generation
Billable200(r) ==
    /\ reqs[r].pc = "done" /\ reqs[r].status = 200
    /\ reqs[r].kind = "generate" \/ reqs[r].duplicated \/ ~reqs[r].alreadyExists

BillableCount(u) == Cardinality({ r \in ReqIds : Billable200(r) /\ reqs[r].user = u })

Quiet(u) == \A q \in ReqIds : reqs[q].user = u => ~InFlight(q)

\* C1: of two /analyze requests of one user for the same normalized URL, at
\* most one is past the single-flight check (quota check, pipeline, save,
\* debit) at any instant.
C1_SingleFlight ==
    \A r, q \in ReqIds :
        (r # q /\ SameKey(r, q)) =>
            ~(reqs[r].pc \in AnalysisPcs /\ reqs[q].pc \in AnalysisPcs)

\* C2: the registry holds a user only while one of the user's requests is
\* between recording the entry and its response, whatever the exit (200, 403,
\* 400, 500); and only a request that overlapped another request of the user
\* is answered ANALYSIS_IN_PROGRESS.
C2_ReleasedOnEveryExit ==
    /\ \A u \in Requesters :
          (\A q \in ReqIds : reqs[q].user = u => reqs[q].pc \notin AnalysisPcs)
              => ~MapHas(activeAnalyses, u)
    /\ \A r \in ReqIds :
          reqs[r].error = "ANALYSIS_IN_PROGRESS" => reqs[r].overlap

\* An analysis that failed with 500 after its pipeline ran has finished, no
\* request of the user is in flight and the user is absent from the registry.
C2_Witness ==
    \E r \in ReqIds :
        /\ reqs[r].pc = "done" /\ reqs[r].kind = "analyze"
        /\ reqs[r].status = 500 /\ reqs[r].ranPipeline
        /\ Quiet(reqs[r].user)
        /\ ~MapHas(activeAnalyses, reqs[r].user)

\* C3: for each owner and each normalized source URL there is at most one
\* recipe row.
C3_OneRowPerOwnerUrl ==
    \A i, j \in 1..Len(recipes) :
        (/\ i < j
         /\ recipes[i].user_id = recipes[j].user_id
         /\ recipes[i].source_url # NullUrl /\ recipes[j].source_url # NullUrl)
        => normalizeTikTokUrl(recipes[i].source_url)
              # normalizeTikTokUrl(recipes[j].source_url)

\* C4: once all requests of a non-premium user have finished, and as long as
\* the successes do not exceed the initial counter, initial minus final
\* free_generations_remaining equals the number of successful billable
\* responses.
C4_ExactDebit ==
    \A u \in Requesters :
        (~profiles[u].is_premium /\ Quiet(u) /\ BillableCount(u) <= free0[u])
            => free0[u] - profiles[u].free = BillableCount(u)

\* C5: free_generations_remaining is never negative, and the counter of a
\* premium user never changes.
C5_QuotaNonNegative ==
    \A u \in Requesters :
        /\ profiles[u].free >= 0
        /\ profiles[u].is_premium => profiles[u].free = free0[u]

\* Two billable requests of a non-premium user with one free generation both
\* succeeded and the counter stopped at 0.
C5_Witness ==
    \E u \in Requesters :
        /\ ~profiles[u].is_premium /\ free0[u] = 1 /\ profiles[u].free = 0
        /\ BillableCount(u) >= 2

\* C6: a non-premium user who starts with n free generations receives at
\* most n successful billable responses.
C6_AtMostN ==
    \A u \in Requesters :
        ~profiles[u].is_premium => BillableCount(u) <= free0[u]

\* C7: an /analyze for a normalized URL for which the user already obtained a
\* recipe by a successful /analyze is answered 200 with alreadyExists, with
\* the id of that recipe, without pipeline and without a new row (the debit is
\* only ever issued after a row was created, so the counter is untouched).
C7_Idempotent ==
    \A r \in ReqIds :
        (reqs[r].pc = "done" /\ reqs[r].kind = "analyze" /\ reqs[r].prior # {}) =>
            /\ reqs[r].status = 200
            /\ reqs[r].alreadyExists /\ ~reqs[r].duplicated
            /\ reqs[r].recipeId \in reqs[r].prior
            /\ ~reqs[r].ranPipeline
            /\ \A i \in 1..Len(recipes) : recipes[i].by # r

\* C8: an /analyze for a URL the requester already owns is not answered
\* ANALYSIS_IN_PROGRESS.
C8_OwnerDuplicateFirst ==
    \A r \in ReqIds :
        (reqs[r].pc = "done" /\ reqs[r].kind = "analyze" /\ reqs[r].prior # {}) =>
            reqs[r].error # "ANALYSIS_IN_PROGRESS"

\* C9: the step that answers 200 on the clone path has run no pipeline, has
\* created a row with a new id owned by the requester, sets alreadyExists and
\* duplicated, and leaves the stored counter of a non-premium requester one
\* lower than it was (premium: unchanged).
C9_CloneBillable ==
    [][ \A r \in ReqIds :
          (reqs[r].pc \in ClonePcs /\ reqs'[r].pc = "done" /\ reqs'[r].status = 200) =>
              LET u == reqs[r].user
                  id == reqs'[r].recipeId
              IN /\ ~reqs'[r].ranPipeline
                 /\ reqs'[r].alreadyExists /\ reqs'[r].duplicated
                 /\ id \in 1..Len(recipes') /\ id # reqs[r].gid
                 /\ recipes'[id].user_id = u /\ recipes'[id].by = r
                 /\ profiles[u].is_premium => profiles'[u].free = free0[u]
                 /\ ~profiles[u].is_premium => profiles'[u].free = profiles[u].free - 1
      ]_vars

\* C10: a request on the clone path holds the single-flight entry of its
\* user, and no other request of that user is on the clone path or in an
\* analysis at the same time.
C10_CloneUnderLock ==
    \A r \in ReqIds :
        reqs[r].pc \in ClonePcs =>
            /\ MapHas(activeAnalyses, reqs[r].user)
            /\ \A q \in ReqIds :
                  (q # r /\ reqs[q].user = reqs[r].user) =>
                      reqs[q].pc \notin (ClonePcs \cup AnalysisPcs)

\* ------------------------------------------------------ rate gate claims
MaxRequestsOf(scope) == DEFAULT_CONFIG[scope].maxRequests

BlockDurationOf(scope) == DEFAULT_CONFIG[scope].blockDurationMs

\* Requests that checkLimit allowed at a scope, counted in the window that
\* resets at w
AllowedIn(scope, w) ==
    { r \in GateIds : GateAt(gate, r).dec[scope].res = "allowed" /\ GateAt(gate, r).dec[scope].win = w }

\* Requests the rate gate passed on whose check at a scope started in [t, t + WindowMs)
PassedIn(scope, t) ==
    { r \in GateIds : /\ GateAt(gate, r).pc = "next"
                      /\ t <= GateAt(gate, r).dec[scope].at
                      /\ GateAt(gate, r).dec[scope].at < t + WindowMs }

Times == { k * TickMs : k \in 0..MaxTicks }

BlockDenials == {"memBlock", "dbBlock"}

\* C13: in one counting window of an identifier at most maxRequests requests
\* are allowed, and the request that is denied for exceeding the limit comes
\* after exactly maxRequests allowed ones.
C13_FirstMaxAllowed ==
    \A s \in Scopes, r \in GateIds :
        LET d == GateAt(gate, r).dec[s] IN
        /\ d.res = "allowed" => Cardinality(AllowedIn(s, d.win)) <= MaxRequestsOf(s)
        /\ d.res = "exceeded" => Cardinality(AllowedIn(s, d.win)) = MaxRequestsOf(s)

\* C14: among the requests the gate lets through, at most maxRequests of a
\* user, of an IP, and overall start in any interval of length windowMs.
C14_SlidingWindow ==
    \A t \in Times :
        /\ Cardinality(PassedIn("user", t)) <= MaxRequestsOf("user")
        /\ Cardinality(PassedIn("ip", t)) <= MaxRequestsOf("ip")
        /\ Cardinality(PassedIn("ip", t)) <= DEFAULT_CONFIG.global.maxRequests

\* C15: the request that exceeds the limit is answered IP_RATE_LIMITED or
\* RATE_LIMITED; IP_BLOCKED and USER_BLOCKED answer only requests that met a
\* block.
C15_FirstExcessCode ==
    \A r \in GateIds, s \in Scopes :
        (GateAt(gate, r).pc = "done" /\ GateAt(gate, r).status = 429) =>
            /\ GateAt(gate, r).dec[s].res = "exceeded"
                  => GateAt(gate, r).error = DenialCode(s, FALSE)
            /\ (GateAt(gate, r).error = DenialCode(s, TRUE) /\ GateAt(gate, r).dec[s].res # "-")
                  => GateAt(gate, r).dec[s].res \in BlockDenials

\* C16: a request whose check starts after the limit was exceeded at time t,
\* with no later excess, is denied with Retry-After = the seconds left until
\* t + blockDurationMs when it starts before that time, and is not denied
\* for a block when it starts at or after it.
C16_BlockLastsExactly ==
    \A r \in GateIds, s \in Scopes :
        LET d == GateAt(gate, r).dec[s] IN
        (d.res # "-" /\ d.seen # {} /\ exceeded[s] = d.seen) =>
            LET until == MaxOf(d.seen) + BlockDurationOf(s) IN
            IF d.at < until
            THEN /\ d.res \in BlockDenials
                 /\ GateAt(gate, r).pc = "done" =>
                       GateAt(gate, r).retryAfter = Ceil(until - d.at, 1000)
            ELSE d.res \notin BlockDenials

\* C17: a request that starts its check at a scope with no entry in memory
\* while a block of its identifier is on record in the store is denied as
\* blocked, with Retry-After up to the blocked_until its lookup read (the one
\* on record at the start, or a later one), is not counted, and leaves an
\* entry in memory with count 0 that is blocked until that time.
C17_DurableBlockEnforced ==
    [][ \A r \in GateIds :
          (GateAt(gate, r).pc = "rateResume" /\ GateAt(gate', r) # GateAt(gate, r)
             /\ GateAt(gate, r).dec[GateAt(gate, r).scope].durable > 0) =>
              LET s     == GateAt(gate, r).scope
                  key   == KeyOf(GateAt(gate, r), s)
                  m     == StoreOf(rateLimitStore', s)
                  until == GateAt(gate, r).dbBlock.blockUntil
              IN /\ until >= GateAt(gate, r).dec[s].durable
                 /\ GateAt(gate', r).pc = "done" /\ GateAt(gate', r).status = 429
                 /\ GateAt(gate', r).error = DenialCode(s, TRUE)
                 /\ GateAt(gate', r).dec[s].res = "dbBlock"
                 /\ GateAt(gate', r).retryAfter = Ceil(until - GateAt(gate, r).dec[s].at, 1000)
                 /\ MapHas(m, key)
                 /\ heap'[s][m[key]].blocked
                 /\ heap'[s][m[key]].blockUntil = until
                 /\ heap'[s][m[key]].count = 0
      ]_vars

\* A request was denied for the block on record, and memory now holds it.
C17_Witness ==
    \E r \in GateIds, s \in Scopes :
        /\ GateAt(gate, r).pc = "done" /\ GateAt(gate, r).dec[s].res = "dbBlock"
        /\ GateAt(gate, r).dec[s].durable > 0
        /\ GateAt(gate, r).error = DenialCode(s, TRUE)
        /\ MapHas(StoreOf(rateLimitStore, s), KeyOf(GateAt(gate, r), s))
        /\ heap[s][StoreOf(rateLimitStore, s)[KeyOf(GateAt(gate, r), s)]].blocked
        /\ heap[s][StoreOf(rateLimitStore, s)[KeyOf(GateAt(gate, r), s)]].count = 0

\* ------------------------------------------------------ quota claims
QuotaCheckPcs == {"cloneCheck", "quotaCheck", "gCheck"}

\* C11: when the quota check of a request of a non-premium user with no free
\* generation left returns, on the clone path and the new-analysis path of
\* /analyze and on /generate, the request is answered 403 PREMIUM_REQUIRED
\* without having run the pipeline, no row is written, the quota is
\* unchanged, and the request does not leave the user in activeAnalyses.
C11_PremiumRequired ==
    [][ \A r \in ReqIds :
          LET rec == reqs[r]
              u   == rec.user
          IN (/\ rec.pc \in QuotaCheckPcs /\ reqs'[r] # rec
              /\ ~profiles[u].is_premium /\ profiles[u].free = 0) =>
                 /\ reqs'[r].pc = "done" /\ reqs'[r].status = 403
                 /\ reqs'[r].error = "PREMIUM_REQUIRED"
                 /\ ~reqs'[r].ranPipeline
                 /\ recipes' = recipes
                 /\ profiles' = profiles
                 /\ MapHas(activeAnalyses', u) =>
                       \E q \in ReqIds \ {r} :
                           reqs'[q].user = u /\ reqs'[q].pc \in AnalysisPcs
      ]_vars

\* A user with no quota has been refused on /analyze and on /generate.
C11_Witness ==
    \E r, q \in ReqIds :
        /\ reqs[r].kind = "analyze" /\ reqs[q].kind = "generate"
        /\ \A x \in {r, q} :
              /\ reqs[x].pc = "done" /\ reqs[x].status = 403
              /\ reqs[x].error = "PREMIUM_REQUIRED"
              /\ ~profiles[reqs[x].user].is_premium
              /\ profiles[reqs[x].user].free = 0
        /\ activeAnalyses = << >>

\* C12: when the model has answered NOT_RECIPE for a request, the request is
\* answered 400 NOT_RECIPE with the message of the model, no row has been or
\* is written for it, the quota is unchanged, its temporary audio file is
\* gone, and the request does not leave the user in activeAnalyses.
C12_NotRecipe ==
    [][ \A r \in ReqIds :
          LET rec == reqs[r]
              u   == rec.user
          IN (rec.pc = "cleanup" /\ rec.verdict = "NOT_RECIPE" /\ reqs'[r] # rec) =>
                 /\ reqs'[r].pc = "done" /\ reqs'[r].status = 400
                 /\ reqs'[r].error = "NOT_RECIPE"
                 /\ rec.userMessage # "" => reqs'[r].message = rec.userMessage
                 /\ recipes' = recipes
                 /\ \A i \in 1..Len(recipes') : recipes'[i].by # r
                 /\ profiles' = profiles
                 /\ profiles[u].free = free0[u] \/ \E q \in ReqIds \ {r} : reqs[q].user = u
                 /\ r \in downloads /\ r \notin downloads'
                 /\ MapHas(activeAnalyses', u) =>
                       \E q \in ReqIds \ {r} :
                           reqs'[q].user = u /\ reqs'[q].pc \in AnalysisPcs
      ]_vars

\* A request was answered 400 NOT_RECIPE with the message of the model after
\* its audio had been downloaded, and nothing is left of it.
C12_Witness ==
    \E r \in ReqIds :
        /\ reqs[r].pc = "done" /\ reqs[r].status = 400 /\ reqs[r].error = "NOT_RECIPE"
        /\ reqs[r].message \in LlmMessages \ {""}
        /\ reqs[r].ranPipeline
        /\ downloads = {}
        /\ activeAnalyses = << >>
        /\ profiles[reqs[r].user].free = free0[reqs[r].user]
        /\ free0[reqs[r].user] > 0

\* ------------------------------------------------------ cost gate claims
\* Every request has been answered, by the cost gate or by its handler
AllSettled == \A r \in ReqIds : GateAt(gate, r).pc = "done" \/ reqs[r].pc = "done"

\* Requests of a user that the cost gate has let through
Admitted(u) == { r \in GateIds : GateAt(gate, r).cost = "allowed" /\ GateAt(gate, r).user = u }

\* C18: when a request of a user has been answered 429
\* USER_DAILY_LIMIT_REACHED and every request has been answered, the
\* billable requests of the user that succeeded that day are exactly
\* DAILY_USER_LIMIT, whatever other requests the user made.
C18_DailyUserQuota ==
    \A r \in ReqIds :
        (GateAt(gate, r).error = "USER_DAILY_LIMIT_REACHED" /\ AllSettled) =>
            BillableCount(GateAt(gate, r).user) = COST_CONFIG.dailyUserLimit

\* C19: no counter of the cost gate passes its limit, and the gate lets
\* through at most DAILY_USER_LIMIT requests of one user in a day.
C19_CostLimitsHold ==
    /\ \A k \in DOMAIN counterRows : counterRows[k] <= LimitOf(k[1])
    /\ \A u \in RateUsers : Cardinality(Admitted(u)) <= COST_CONFIG.dailyUserLimit

\* C20: the check of the counts a request has obtained denies with
\* HOURLY_LIMIT_REACHED first, then DAILY_LIMIT_REACHED, then
\* USER_DAILY_LIMIT_REACHED; a denied request is answered 429 and stays so,
\* and a counter changes only in the step that lets a request through.
C20_DenialOrder ==
    [][ /\ \A r \in GateIds :
             (GateAt(gate, r).pc = "costResume" /\ GateAt(gate', r) # GateAt(gate, r)) =>
                 LET c == GateAt(gate, r).counts
                     h == c["hourly_global"] >= COST_CONFIG.hourlyGlobalLimit
                     d == c["daily_global"] >= COST_CONFIG.dailyGlobalLimit
                     u == c["daily_user"] >= COST_CONFIG.dailyUserLimit
                 IN /\ h => GateAt(gate', r).error = "HOURLY_LIMIT_REACHED"
                    /\ (~h /\ d) => GateAt(gate', r).error = "DAILY_LIMIT_REACHED"
                    /\ (~h /\ ~d /\ u) => GateAt(gate', r).error = "USER_DAILY_LIMIT_REACHED"
                    /\ (h \/ d \/ u) =>
                          /\ GateAt(gate', r).pc = "done" /\ GateAt(gate', r).status = 429
                          /\ counterRows' = counterRows
                    /\ ~(h \/ d \/ u) => GateAt(gate', r).pc = "costInc"
        /\ \A r \in GateIds : GateAt(gate, r).pc = "done" => GateAt(gate', r) = GateAt(gate, r)
        /\ (\E k \in DOMAIN counterRows' : CountOf(counterRows', k) # CountOf(counterRows, k)) =>
               \E r \in GateIds : /\ GateAt(gate, r).pc = "costInc"
                                  /\ GateAt(gate', r).pc = "handler" /\ GateAt(gate', r).cost = "allowed"
      ]_vars

\* A request was denied for the hour while the day's counter and the
\* user's counter had reached their limits too.
C20_Witness ==
    \E r \in GateIds :
        /\ GateAt(gate, r).pc = "done" /\ GateAt(gate, r).error = "HOURLY_LIMIT_REACHED"
        /\ CountOf(counterRows, CounterKey("daily_global", "", 0))
              >= COST_CONFIG.dailyGlobalLimit
        /\ CountOf(counterRows, CounterKey("daily_user", GateAt(gate, r).user, 0))
              >= COST_CONFIG.dailyUserLimit

\* Sum of the counters of a type over its periods
RECURSIVE SumCounts(_, _)
SumCounts(rows, keys) ==
    IF keys = {} THEN 0
    ELSE LET k == CHOOSE x \in keys : TRUE
         IN rows[k] + SumCounts(rows, keys \ {k})

TotalOf(type) == SumCounts(counterRows, { k \in DOMAIN counterRows : k[1] = type })

\* The request is between the check of the counts and the end of its increments
CostIncrementing(r) == GateAt(gate, r).pc \in {"costInc", "costFbRead", "costFbUpdate"}

\* C21: once no request is in the middle of its increments, each of the
\* counter types daily_global, hourly_global and daily_user has been raised
\* by exactly 1 for every request the cost gate admitted after its check,
\* and by nothing else: no increment is lost, none is applied alone.
C21_IncrementsExact ==
    (\A r \in GateIds : ~CostIncrementing(r)) =>
        \A t \in CostTypes :
            TotalOf(t) = Cardinality({ r \in GateIds : GateAt(gate, r).cost = "allowed" })

\* C22: a step of the cost gate that reads or increments counters never
\* ends in a denial: the request goes on in the gate or is passed to its
\* handler, and a request let through after a store error is passed to
\* its handler; the gate denies only in the step that compares counts it
\* has obtained, when one of them has reached its limit.
C22_FailOpen ==
    [][ \A r \in GateIds :
          LET old == GateAt(gate, r)  new == GateAt(gate', r)
          IN /\ (old.pc \in {"costRead", "costInc", "costFbRead", "costFbUpdate"}
                    /\ new # old) =>
                   /\ new.pc \in {"costResume", "costFbRead", "costFbUpdate", "handler"}
                   /\ new.status = 0 /\ new.error = "-"
                   /\ new.pc = "handler" => new.cost \in {"allowed", "failOpen"}
             /\ (new.cost = "failOpen" /\ old.cost # "failOpen") => new.pc = "handler"
             /\ (new.status = 429 /\ old.status # 429) =>
                   /\ old.pc = "costResume"
                   /\ CostDecision(old.counts) # "allowed"
      ]_vars

\* A request was let through after a store error while the counter of its
\* user had reached the limit.
C22_Witness ==
    \E r \in GateIds :
        /\ GateAt(gate, r).pc = "handler" /\ GateAt(gate, r).cost = "failOpen"
        /\ TotalOf("daily_user") >= COST_CONFIG.dailyUserLimit

\* ------------------------------------------------- single-flight claims
\* Positions of /generate between the quota check and the response (400-466)
GeneratePcs == {"gCheck", "gPipeline", "gSave", "gDebitSel", "gDebitUpd"}

\* C23: a /generate of a user is never in progress together with another
\* generation or analysis of that user (the later one would have been
\* answered 429 ANALYSIS_IN_PROGRESS), and while a /generate is in progress
\* its user is in the single-flight registry.
C23_GenerateSingleFlight ==
    \A r \in ReqIds :
        (reqs[r].kind = "generate" /\ reqs[r].pc \in GeneratePcs) =>
            /\ MapHas(activeAnalyses, reqs[r].user)
            /\ \A q \in ReqIds \ {r} :
                  ~(/\ reqs[q].user = reqs[r].user
                    /\ reqs[q].pc \in GeneratePcs \cup AnalysisPcs)

\* C24: an /analyze is answered 429 ANALYSIS_IN_PROGRESS only when an
\* analysis of the same user for the same normalized URL is in progress;
\* an analysis of another URL of that user does not keep it out.
C24_DistinctUrlsConcurrent ==
    [][ \A r \in ReqIds :
          (/\ reqs[r].pc = "idle" /\ reqs'[r].kind = "analyze"
           /\ reqs'[r].error = "ANALYSIS_IN_PROGRESS") =>
              \E q \in ReqIds \ {r} :
                  /\ reqs[q].kind = "analyze" /\ reqs[q].user = reqs'[r].user
                  /\ reqs[q].pc \in AnalysisPcs
                  /\ normalizeTikTokUrl(reqs[q].url) = normalizeTikTokUrl(reqs'[r].url)
      ]_vars

\* ------------------------------------------------------ pipeline claims
\* The requests of user u are all /analyze requests for unsupported URLs
OnlyUnsupported(u) ==
    \A q \in ReqIds :
        reqs[q].user = u => (reqs[q].kind = "analyze" /\ ~detectPlatform(reqs[q].url))

\* C25: an /analyze for a URL that matches no platform pattern contacts no
\* provider and creates no recipe row; once it is answered with no other
\* request of its user in flight the user is not in the registry; and the
\* quota of a user who only made such requests is what it was.
C25_UnsupportedUrlRejected ==
    /\ \A r \in ReqIds :
          (reqs[r].kind = "analyze" /\ ~detectPlatform(reqs[r].url)) =>
              /\ ~reqs[r].ranPipeline
              /\ \A i \in 1..Len(recipes) : recipes[i].by # r
              /\ (reqs[r].pc = "done" /\ Quiet(reqs[r].user)) =>
                    ~MapHas(activeAnalyses, reqs[r].user)
    /\ \A u \in Requesters : OnlyUnsupported(u) => profiles[u].free = free0[u]

\* C26: once analyzeRecipeFromVideo has returned or thrown for a request,
\* no audio file of that request is in the download directory.
C26_NoAudioLeft ==
    \A r \in ReqIds :
        reqs[r].pc \in {"save", "debitSel", "debitUpd", "done"} => r \notin downloads

\* ------------------------------------------------ description cleaners
\* Characters of a description: a space, '#', a letter, a digit, ':'
DescChars == {" ", "#", "a", "1", ":"}

StringsUpTo(chars, n) == UNION { [1..k -> chars] : k \in 0..n }

IsSpace(c) == c = " "
\* \w
IsWord(c) == c \in {"a", "1"}
\* \d
IsDigit(c) == c = "1"

RECURSIVE DropSpaces(_)
DropSpaces(s) == IF s # << >> /\ IsSpace(Head(s)) THEN DropSpaces(Tail(s)) ELSE s

RECURSIVE DropWord(_)
DropWord(s) == IF s # << >> /\ IsWord(Head(s)) THEN DropWord(Tail(s)) ELSE s

\* .replace(/\s+/g, ' ')
RECURSIVE CollapseSpaces(_)
CollapseSpaces(s) ==
    IF s = << >> THEN << >>
    ELSE IF IsSpace(Head(s)) THEN <<" ">> \o CollapseSpaces(DropSpaces(s))
    ELSE <<Head(s)>> \o CollapseSpaces(Tail(s))

\* .replace(/#\w+/g, '')
RECURSIVE RemoveHashtags(_)
RemoveHashtags(s) ==
    IF s = << >> THEN << >>
    ELSE IF Head(s) = "#" /\ Len(s) >= 2 /\ IsWord(s[2])
    THEN RemoveHashtags(DropWord(Tail(s)))
    ELSE <<Head(s)>> \o RemoveHashtags(Tail(s))

\* Length of the match of /\d{1,2}:\d{2}/ at the start of s, 0 for none
TimestampAt(s) ==
    IF Len(s) >= 5 /\ IsDigit(s[1]) /\ IsDigit(s[2]) /\ s[3] = ":"
                   /\ IsDigit(s[4]) /\ IsDigit(s[5]) THEN 5
    ELSE IF Len(s) >= 4 /\ IsDigit(s[1]) /\ s[2] = ":"
                        /\ IsDigit(s[3]) /\ IsDigit(s[4]) THEN 4
    ELSE 0

\* .replace(/\d{1,2}:\d{2}/g, '')
RECURSIVE RemoveTimestamps(_)
RemoveTimestamps(s) ==
    IF s = << >> THEN << >>
    ELSE IF TimestampAt(s) > 0
    THEN RemoveTimestamps(SubSeq(s, TimestampAt(s) + 1, Len(s)))
    ELSE <<Head(s)>> \o RemoveTimestamps(Tail(s))

\* .replace(/https?:\/\/[^\s]+/g, ''): no string over DescChars holds
\* "http", so the pattern matches nowhere
RemoveUrls(s) == s

RECURSIVE TrimEnd(_)
TrimEnd(s) ==
    IF s # << >> /\ IsSpace(s[Len(s)]) THEN TrimEnd(SubSeq(s, 1, Len(s) - 1)) ELSE s

\* .trim()
trim(s) == TrimEnd(DropSpaces(s))

\* YouTubePlatform.js:281-287 Platform.cleanDescription (analyzer.js:144-150
\* is the same function)
cleanDescription(rawText) ==
    IF rawText = << >> THEN << >>
    ELSE trim(RemoveHashtags(CollapseSpaces(rawText)))

\* YouTubePlatform.js:201-210 YouTubePlatform.cleanDescription
YouTubePlatform_cleanDescription(rawText) ==
    IF rawText = << >> THEN << >>
    ELSE trim(RemoveUrls(RemoveTimestamps(RemoveHashtags(CollapseSpaces(rawText)))))

Cleaners == {"Platform", "YouTubePlatform"}

CleanWith(cleaner, s) ==
    IF cleaner = "YouTubePlatform" THEN YouTubePlatform_cleanDescription(s)
    ELSE cleanDescription(s)

\* A description is about to be cleaned by one of the cleaners
InitClean ==
    /\ HandlersAtRest /\ GatesIdle /\ faulty = FALSE
    /\ calc \in [ cleaner : Cleaners, rawText : StringsUpTo(DescChars, MaxDescLen),
                   once : {<< >>}, twice : {<< >>}, calls : {0} ]

\* cleanDescription(rawText)
CleanCall ==
    /\ calc.calls = 0
    /\ calc' = [calc EXCEPT !.once = CleanWith(calc.cleaner, calc.rawText), !.calls = 1]
    /\ UNCHANGED <<activeAnalyses, recipes, profiles, reqs, free0, faulty, downloads, gateVars, libVars>>

\* cleanDescription applied to its own result
CleanAgain ==
    /\ calc.calls = 1
    /\ calc' = [calc EXCEPT !.twice = CleanWith(calc.cleaner, calc.once), !.calls = 2]
    /\ UNCHANGED <<activeAnalyses, recipes, profiles, reqs, free0, faulty, downloads, gateVars, libVars>>

NextClean == CleanCall \/ CleanAgain

SpecClean == InitClean /\ [][NextClean]_vars

\* C27: the result of cleanDescription is a fixed point of cleanDescription,
\* holds no two consecutive spaces and no '#' followed by a word character,
\* for the cleaner of the base platform and for that of YouTube.
C27_CleanIdempotent ==
    /\ calc.calls >= 1 =>
          \A i \in 1..(Len(calc.once) - 1) :
              /\ ~(IsSpace(calc.once[i]) /\ IsSpace(calc.once[i + 1]))
              /\ ~(calc.once[i] = "#" /\ IsWord(calc.once[i + 1]))
    /\ calc.calls = 2 => calc.twice = calc.once

\* ---------------------------------------------------- URL normalisation
\* Characters of a URL: two letters and the question mark
UrlChars == {"a", "b", "?"}

\* String.prototype.split(sep) for a separator of one character: the
\* pieces between the separators
RECURSIVE split(_, _)
split(s, sep) ==
    IF \A i \in 1..Len(s) : s[i] # sep THEN <<s>>
    ELSE LET i == CHOOSE j \in 1..Len(s) : s[j] = sep /\ \A k \in 1..(j - 1) : s[k] # sep
         IN <<SubSeq(s, 1, i - 1)>> \o split(SubSeq(s, i + 1, Len(s)), sep)

\* database.js getExistingRecipeByUrl: const normalizedUrl = sourceUrl.split('?')[0]
LookupNormalizedUrl(sourceUrl) == split(sourceUrl, "?")[1]

\* A URL u and a query string q are about to be normalised
InitNormalize ==
    /\ HandlersAtRest /\ GatesIdle /\ faulty = FALSE
    /\ calc \in [ u : StringsUpTo(UrlChars, MaxUrlLen), q : StringsUpTo(UrlChars, MaxUrlLen),
                   plain : {<< >>}, withQuery : {<< >>}, again : {<< >>},
                   lookup : {<< >>}, calls : {0} ]

\* server.js:107: normalizeTikTokUrl(u) for the single-flight entry
NormalizeUrl ==
    /\ calc.calls = 0
    /\ calc' = [calc EXCEPT !.plain = normalizeTikTokUrl(calc.u), !.calls = 1]
    /\ UNCHANGED <<activeAnalyses, recipes, profiles, reqs, free0, faulty, downloads, gateVars, libVars>>

\* normalizeTikTokUrl(u + "?" + q)
NormalizeWithQuery ==
    /\ calc.calls = 1
    /\ calc' = [calc EXCEPT !.withQuery = normalizeTikTokUrl(calc.u \o <<"?">> \o calc.q),
                            !.calls = 2]
    /\ UNCHANGED <<activeAnalyses, recipes, profiles, reqs, free0, faulty, downloads, gateVars, libVars>>

\* normalizeTikTokUrl applied to its own result
NormalizeAgain ==
    /\ calc.calls = 2
    /\ calc' = [calc EXCEPT !.again = normalizeTikTokUrl(calc.plain), !.calls = 3]
    /\ UNCHANGED <<activeAnalyses, recipes, profiles, reqs, free0, faulty, downloads, gateVars, libVars>>

\* server.js:131: getExistingRecipeByUrl(userId, u) normalises u for its query
NormalizeForLookup ==
    /\ calc.calls = 3
    /\ calc' = [calc EXCEPT !.lookup = LookupNormalizedUrl(calc.u), !.calls = 4]
    /\ UNCHANGED <<activeAnalyses, recipes, profiles, reqs, free0, faulty, downloads, gateVars, libVars>>

NextNormalize ==
    \/ NormalizeUrl
    \/ NormalizeWithQuery
    \/ NormalizeAgain
    \/ NormalizeForLookup

SpecNormalize == InitNormalize /\ [][NextNormalize]_vars

\* C28: normalize(u + "?" + q) = normalize(u) for every URL u and string q,
\* normalize(normalize(u)) = normalize(u), and the owner-duplicate lookup
\* normalises u to the same string as the single-flight entry.
C28_NormalizeStable ==
    /\ calc.calls >= 2 => calc.withQuery = calc.plain
    /\ calc.calls >= 3 => calc.again = calc.plain
    /\ calc.calls >= 4 => calc.lookup = calc.plain

\* All four normalisations were computed for a URL that has a query string
\* already and a string q that holds a question mark.
C28_Witness ==
    /\ calc.calls = 4
    /\ \E i \in 1..Len(calc.u) : calc.u[i] = "?" /\ i > 1
    /\ \E i \in 1..Len(calc.q) : calc.q[i] = "?"

\* --------------------------------------------------- ingredient matcher
\* Characters of a raw ingredient name: a lower-case letter, an upper-case
\* letter, a space
RawChars == {"a", "B", " "}

\* String.prototype.toLowerCase on one character
toLowerCase(c) == IF c = "B" THEN "b" ELSE c

\* database.js:35-42 normalizeName: lower case, accents removed (no
\* character of RawChars has one), whitespace collapsed, trimmed
normalizeName(name) ==
    trim(CollapseSpaces([i \in 1..Len(name) |-> toLowerCase(name[i])]))

\* The normalized names
Names == { normalizeName(s) : s \in StringsUpTo(RawChars, MaxNameLen) }

\* Scores are kept in units of 1/60: 60 is 1.0, 48 is 0.8, 42 is 0.7, 30 is
\* 0.5; commonWords.length / totalWords is exact in these units for up to
\* six words
ScoreScale == 60

\* String.prototype.includes
includes(s, sub) ==
    \E i \in 0..(Len(s) - Len(sub)) : SubSeq(s, i + 1, i + Len(sub)) = sub

\* Array.prototype.includes
HasWord(words, w) == \E j \in 1..Len(words) : words[j] = w

Min2(a, b) == IF a <= b THEN a ELSE b

\* database.js:50-76 similarityScore
similarityScore(str1, str2) ==
    LET words1 == split(str1, " ")
        words2 == split(str2, " ")
        minLen == Min2(Len(str1), Len(str2))
        commonWords == { i \in 1..Len(words1) : HasWord(words2, words1[i]) }
        totalWords  == Max2(Len(words1), Len(words2))
        wordScore   == (Cardinality(commonWords) * ScoreScale) \div totalWords
        shortestWords == IF Len(words1) <= Len(words2) THEN words1 ELSE words2
        longestWords  == IF Len(words1) > Len(words2) THEN words1 ELSE words2
        allWordsMatched ==
            \A i \in 1..Len(shortestWords) : HasWord(longestWords, shortestWords[i])
    IN IF str1 = str2 THEN ScoreScale
       ELSE IF minLen >= 3 /\ (includes(str1, str2) \/ includes(str2, str1))
       THEN (8 * ScoreScale) \div 10
       ELSE IF allWordsMatched THEN Max2(wordScore, (7 * ScoreScale) \div 10)
       ELSE wordScore

\* Two normalized names are about to be compared
InitScore ==
    /\ HandlersAtRest /\ GatesIdle /\ faulty = FALSE
    /\ calc \in [ str1 : Names, str2 : Names, score : {0}, swapped : {0}, calls : {0} ]

\* similarityScore(str1, str2)
ScoreCall ==
    /\ calc.calls = 0
    /\ calc' = [calc EXCEPT !.score = similarityScore(calc.str1, calc.str2), !.calls = 1]
    /\ UNCHANGED <<activeAnalyses, recipes, profiles, reqs, free0, faulty, downloads, gateVars, libVars>>

\* similarityScore(str2, str1)
ScoreSwapped ==
    /\ calc.calls = 1
    /\ calc' = [calc EXCEPT !.swapped = similarityScore(calc.str2, calc.str1), !.calls = 2]
    /\ UNCHANGED <<activeAnalyses, recipes, profiles, reqs, free0, faulty, downloads, gateVars, libVars>>

NextScore == ScoreCall \/ ScoreSwapped

SpecScore == InitScore /\ [][NextScore]_vars

\* C29: similarityScore returns 1.0 on equality, else 0.8 when both names
\* have at least 3 characters and one contains the other, else the word-set
\* score |Wa \cap Wb| / max(|Wa|, |Wb|), raised to 0.7 when the smaller
\* word set is within the larger; the value is in [0, 1] and is the same
\* when the arguments are exchanged.
C29_SimilarityScore ==
    LET a  == calc.str1
        b  == calc.str2
        Wa == { split(a, " ")[i] : i \in 1..Len(split(a, " ")) }
        Wb == { split(b, " ")[i] : i \in 1..Len(split(b, " ")) }
        wordScore == (Cardinality(Wa \cap Wb) * ScoreScale)
                         \div Max2(Cardinality(Wa), Cardinality(Wb))
        within == IF Cardinality(Wa) <= Cardinality(Wb) THEN Wa \subseteq Wb
                  ELSE Wb \subseteq Wa
        stated ==
            IF a = b THEN ScoreScale
            ELSE IF Min2(Len(a), Len(b)) >= 3 /\ (includes(a, b) \/ includes(b, a))
            THEN (8 * ScoreScale) \div 10
            ELSE IF within THEN Max2(wordScore, (7 * ScoreScale) \div 10)
            ELSE wordScore
    IN /\ calc.calls >= 1 => calc.score = stated /\ calc.score \in 0..ScoreScale
       /\ calc.calls = 2 => calc.swapped = calc.score

\* --------------------------------------------------- findMatchingFoodItem
\* Characters of the names in food_items
ItemChars == {"a", " "}

\* The names in food_items, as normalizeName leaves them
FoodNames == { normalizeName(s) : s \in StringsUpTo(ItemChars, MaxFoodLen) }

\* The rows of food_items in the order the select returns them
RECURSIVE Snapshots(_)
Snapshots(n) ==
    IF n = 0 THEN { << >> }
    ELSE Snapshots(n - 1) \cup
         { Append(s, name) : s \in { x \in Snapshots(n - 1) : Len(x) = n - 1 },
                             name \in FoodNames }

\* No food item: the null the matcher returns
NoItem == 0

\* A sort that puts the later of two equal scores first
RECURSIVE SortByScore_TiesLast(_)
SortByScore_TiesLast(scored) ==
    IF Len(scored) = 0 THEN << >>
    ELSE LET rest == SortByScore_TiesLast(SubSeq(scored, 1, Len(scored) - 1))
             x    == scored[Len(scored)]
             k    == Cardinality({ i \in 1..Len(rest) : rest[i].score > x.score })
         IN SubSeq(rest, 1, k) \o <<x>> \o SubSeq(rest, k + 1, Len(rest))

\* database.js:111 scoredItems.sort((a, b) => b.score - a.score): by
\* decreasing score, equal scores staying in their order (the sort is stable)
RECURSIVE SortByScore(_)
SortByScore(scored) ==
    IF Len(scored) = 0 THEN << >>
    ELSE LET rest == SortByScore(SubSeq(scored, 1, Len(scored) - 1))
             x    == scored[Len(scored)]
             k    == Cardinality({ i \in 1..Len(rest) : rest[i].score >= x.score })
         IN SubSeq(rest, 1, k) \o <<x>> \o SubSeq(rest, k + 1, Len(rest))

\* database.js:83-132 findMatchingFoodItem: the position in the snapshot of
\* the item returned, NoItem for null
findMatchingFoodItem(rawName, items, readOk) ==
    IF ~readOk THEN NoItem
    ELSE IF Len(items) = 0 THEN NoItem
    ELSE LET normRawName == normalizeName(rawName)
             scoredItems ==
                 [ i \in 1..Len(items) |->
                     [ item  |-> i,
                       score |-> similarityScore(normRawName, normalizeName(items[i])) ] ]
             bestMatch == SortByScore(scoredItems)[1]
         IN IF 2 * bestMatch.score >= ScoreScale THEN bestMatch.item ELSE NoItem

\* A raw name is about to be matched against a snapshot of food_items; the
\* read of food_items can fail
InitMatch ==
    /\ HandlersAtRest /\ GatesIdle /\ faulty = TRUE
    /\ calc \in [ rawName : StringsUpTo(RawChars, MaxRawLen), items : Snapshots(MaxItems),
                   readOk : {TRUE}, result : {NoItem}, again : {NoItem}, calls : {0} ]

\* findMatchingFoodItem(rawName): the select of food_items and what follows
MatchCall ==
    /\ calc.calls = 0
    /\ \E ok \in Outcomes :
          calc' = [calc EXCEPT !.readOk = ok,
                               !.result = findMatchingFoodItem(calc.rawName, calc.items, ok),
                               !.calls = 1]
    /\ UNCHANGED <<activeAnalyses, recipes, profiles, reqs, free0, faulty, downloads, gateVars, libVars>>

\* findMatchingFoodItem(rawName) once more, food_items unchanged and read
MatchAgain ==
    /\ calc.calls = 1
    /\ calc.readOk
    /\ calc' = [calc EXCEPT !.again = findMatchingFoodItem(calc.rawName, calc.items, TRUE),
                            !.calls = 2]
    /\ UNCHANGED <<activeAnalyses, recipes, profiles, reqs, free0, faulty, downloads, gateVars, libVars>>

NextMatch == MatchCall \/ MatchAgain

SpecMatch == InitMatch /\ [][NextMatch]_vars

\* The score of the item at position i against the normalized raw name
ScoreAt(i) == similarityScore(normalizeName(calc.rawName), normalizeName(calc.items[i]))

\* The positions of the items with the highest score
BestItems ==
    { i \in 1..Len(calc.items) : \A j \in 1..Len(calc.items) : ScoreAt(j) <= ScoreAt(i) }

\* C30: findMatchingFoodItem returns the item with the highest score against
\* the normalized raw name when that score is at least 0.5, the first in
\* snapshot order among the items with that score, and null otherwise, also
\* when the snapshot is empty or the read fails; the same raw name and
\* snapshot give the same result.
C30_BestMatch ==
    /\ calc.calls >= 1 =>
          IF calc.readOk /\ \E i \in BestItems : 2 * ScoreAt(i) >= ScoreScale
          THEN /\ calc.result \in BestItems
               /\ \A i \in BestItems : calc.result <= i
          ELSE calc.result = NoItem
    /\ calc.calls = 2 => calc.again = calc.result

\* Two items share the best score, the first of them is returned
C30_Witness ==
    /\ calc.calls = 2
    /\ Cardinality(BestItems) >= 2
    /\ calc.result # NoItem
    /\ normalizeName(calc.rawName) # calc.rawName

\* ------------------------------------------------- owner-duplicate match
\* C31: a recipe returned as alreadyExists by the owner-duplicate lookup has
\* a source URL whose normalized form equals the normalized URL of the
\* request.
C31_OwnerDuplicateSameUrl ==
    \A r \in ReqIds :
        (reqs[r].pc = "done" /\ reqs[r].kind = "analyze" /\ reqs[r].status = 200
            /\ reqs[r].alreadyExists /\ ~reqs[r].duplicated) =>
            normalizeTikTokUrl(recipes[reqs[r].recipeId].source_url)
                = normalizeTikTokUrl(reqs[r].url)

\* --------------------------------------------------- platform detection
\* URLs as sequences of pieces: the literals of the three urlPattern
\* expressions and pieces that are none of them.  A URL is a scheme, "://",
\* an optional sub-domain, a site, an optional continuation of the host name,
\* and a path.
UrlSchemes   == { <<"http">>, <<"http", "s">>, <<"HTTP", "s">>, <<"ftp">> }
UrlSubs      == { << >>, <<"www.">>, <<"vm.">> }
UrlSites     == { <<"tiktok.com">>, <<"instagram.com">>, <<"youtube.com">>, <<"youtu.be">>,
                  <<"facebook.com">> }
UrlHostTails == { << >>, <<".example.org">> }
UrlPaths     == { << >>, <<"/">>, <<"/", "x">>, <<"/", "watch">>, <<"/", "shorts">>,
                  <<"/", "shorts", "/", "x">>, <<"/", "reel", "/", "x">>,
                  <<"/", "p", "/", "x">>, <<"/", "p">>, <<"/", "tv", "/", "x">> }

\* The i flag of the patterns: pieces are compared in lower case
LowerPiece(piece) == IF piece = "HTTP" THEN "http" ELSE piece

LowerCase(url) == [ i \in 1..Len(url) |-> LowerPiece(url[i]) ]

\* /^https?:\/\/(www\.)?
PatternHead ==
    { scheme \o <<"://">> \o www :
        scheme \in { <<"http">>, <<"http", "s">> }, www \in { << >>, <<"www.">> } }

\* The strings each urlPattern accepts at the start of a URL
\* (TikTokPlatform.js:15, InstagramPlatform.js:16, YouTubePlatform.js:15)
urlPattern(name) ==
    CASE name = "TikTok" ->
           { h \o site : h \in PatternHead, site \in { <<"tiktok.com">>, <<"vm.", "tiktok.com">> } }
      [] name = "Instagram" ->
           { h \o <<"instagram.com", "/", kind, "/">> :
               h \in PatternHead, kind \in { "reel", "p", "tv" } }
      [] name = "YouTube" ->
           { h \o <<"youtube.com", "/", "shorts", "/">> : h \in PatternHead }

\* Platform.matches of the platform called name
PlatformMatches(name, url) ==
    \E prefix \in urlPattern(name) : matches(prefix, LowerCase(url))

\* PlatformFactory.js:10-15
PLATFORMS == << "TikTok", "Instagram", "YouTube" >>

\* The orders the registry can list the platforms in
RegistryOrders ==
    { order \in [1..3 -> {"TikTok", "Instagram", "YouTube"}] :
        \A i, j \in 1..3 : i # j => order[i] # order[j] }

\* What detectPlatform answers when it throws
Unsupported == "unsupported"

\* PlatformFactory.js:23-43 detectPlatform over a registry: the name of the
\* first platform that matches
PlatformFactory_detectPlatform(registry, url) ==
    IF \E i \in 1..Len(registry) : PlatformMatches(registry[i], url)
    THEN registry[CHOOSE i \in 1..Len(registry) :
                    /\ PlatformMatches(registry[i], url)
                    /\ \A j \in 1..(i - 1) : ~PlatformMatches(registry[j], url)]
    ELSE Unsupported

\* The URL made of the parts drawn
UrlOf(c) == c.scheme \o <<"://">> \o c.sub \o c.site \o c.tail \o c.path

\* A URL is about to be given to detectPlatform
InitDetect ==
    /\ HandlersAtRest /\ GatesIdle /\ faulty = FALSE
    /\ calc \in [ scheme : UrlSchemes, sub : UrlSubs, site : UrlSites, tail : UrlHostTails,
                   path : UrlPaths, order : RegistryOrders,
                   platform : {"-"}, reordered : {"-"}, calls : {0} ]

\* detectPlatform(url)
DetectCall ==
    /\ calc.calls = 0
    /\ calc' = [calc EXCEPT !.platform = PlatformFactory_detectPlatform(PLATFORMS, UrlOf(calc)),
                            !.calls = 1]
    /\ UNCHANGED <<activeAnalyses, recipes, profiles, reqs, free0, faulty, downloads, gateVars, libVars>>

\* detectPlatform(url) with the registry in another order
DetectReordered ==
    /\ calc.calls = 1
    /\ calc' = [calc EXCEPT !.reordered = PlatformFactory_detectPlatform(calc.order, UrlOf(calc)),
                            !.calls = 2]
    /\ UNCHANGED <<activeAnalyses, recipes, profiles, reqs, free0, faulty, downloads, gateVars, libVars>>

NextDetect == DetectCall \/ DetectReordered

SpecDetect == InitDetect /\ [][NextDetect]_vars

\* C32: detectPlatform answers TikTok for http(s) URLs whose host is
\* tiktok.com, www.tiktok.com or vm.tiktok.com, Instagram for URLs of
\* instagram.com under /reel/, /p/ or /tv/, YouTube for URLs of youtube.com
\* under /shorts/, and throws for every other URL; the answer is the same in
\* every order of the registry.
C32_DetectPlatform ==
    LET host == calc.sub \o calc.site \o calc.tail
        web  == LowerCase(calc.scheme) \in { <<"http">>, <<"http", "s">> }
        under(kind) == Len(calc.path) >= 3 /\ SubSeq(calc.path, 1, 3) = <<"/", kind, "/">>
        stated ==
            IF web /\ host \in { <<"tiktok.com">>, <<"www.", "tiktok.com">>, <<"vm.", "tiktok.com">> }
            THEN "TikTok"
            ELSE IF web /\ host \in { <<"instagram.com">>, <<"www.", "instagram.com">> }
                        /\ (under("reel") \/ under("p") \/ under("tv"))
            THEN "Instagram"
            ELSE IF web /\ host \in { <<"youtube.com">>, <<"www.", "youtube.com">> }
                        /\ under("shorts")
            THEN "YouTube"
            ELSE Unsupported
    IN /\ calc.calls >= 1 => calc.platform = stated
       /\ calc.calls = 2 => calc.reordered = calc.platform

\* ------------------------------------------------- saveRecipeToDatabase
\* Where a call goes once its recipe row exists: to the ingredients
\* (database.js:437), else to the steps (468), else to its return (492)
AfterRecipe(c) ==
    [c EXCEPT !.pc = IF c.hasIngredients THEN "match"
                     ELSE IF c.hasSteps THEN "steps" ELSE "returned"]

\* Where a call goes after the ingredients: to the steps, else to its return
AfterIngredients(c) == [c EXCEPT !.pc = IF c.hasSteps THEN "steps" ELSE "returned"]

\* A call that goes on after the insert of its recipe row failed
AfterRecipeError_Continue(c) == AfterRecipe(c)

\* database.js:429-432 and 494-497: recipeError is thrown, caught and
\* thrown again to the caller
AfterRecipeError(c) == [c EXCEPT !.pc = "thrown"]

\* database.js:336-377: the call starts with the recipe data it was given and
\* awaits the upload of the thumbnail, which returns null when it fails
SaveStart(s) ==
    /\ SaveAt(s).pc = "idle"
    /\ \E hasIngredients \in BOOLEAN, hasSteps \in BOOLEAN :
          saves' = MapSet(saves, s, [SaveAt(s) EXCEPT !.pc = "insert",
                                                  !.hasIngredients = hasIngredients,
                                                  !.hasSteps = hasSteps])
    /\ UNCHANGED <<activeAnalyses, recipes, profiles, reqs, free0, faulty, downloads, gateVars,
                   calc, ingredients, steps, audio>>

\* database.js:404-434: the insert into recipes and what follows it
SaveInsertRecipe(s) ==
    /\ SaveAt(s).pc = "insert"
    /\ \E storeOk \in Outcomes :
          IF storeOk
          THEN /\ recipes' = Append(recipes, Row("u1", NullUrl, s))
               /\ saves' = MapSet(saves, s,
                               AfterRecipe([SaveAt(s) EXCEPT !.recipeId = Len(recipes) + 1]))
          ELSE /\ saves' = MapSet(saves, s, AfterRecipeError(SaveAt(s)))
               /\ UNCHANGED recipes
    /\ UNCHANGED <<activeAnalyses, profiles, reqs, free0, faulty, downloads, gateVars,
                   calc, ingredients, steps, audio>>

\* database.js:440-452: every ingredient is matched against food_items;
\* findMatchingFoodItem reads only and returns null when it fails
SaveMatch(s) ==
    /\ SaveAt(s).pc = "match"
    /\ saves' = MapSet(saves, s, [SaveAt(s) EXCEPT !.pc = "ingredients"])
    /\ UNCHANGED <<activeAnalyses, recipes, profiles, reqs, free0, faulty, downloads, gateVars,
                   calc, ingredients, steps, audio>>

\* database.js:454-463: the insert into ingredients; its error is logged
SaveInsertIngredients(s) ==
    /\ SaveAt(s).pc = "ingredients"
    /\ \E storeOk \in Outcomes :
          /\ ingredients' = IF storeOk
                            THEN Append(ingredients, [recipe_id |-> SaveAt(s).recipeId, by |-> s])
                            ELSE ingredients
          /\ saves' = MapSet(saves, s,
                         AfterIngredients([SaveAt(s) EXCEPT !.ingredientsError = ~storeOk]))
    /\ UNCHANGED <<activeAnalyses, recipes, profiles, reqs, free0, faulty, downloads, gateVars,
                   calc, steps, audio>>

\* database.js:467-493: the insert into steps; its error is logged; the
\* recipe row is returned
SaveInsertSteps(s) ==
    /\ SaveAt(s).pc = "steps"
    /\ \E storeOk \in Outcomes :
          /\ steps' = IF storeOk
                      THEN Append(steps, [recipe_id |-> SaveAt(s).recipeId, by |-> s])
                      ELSE steps
          /\ saves' = MapSet(saves, s, [SaveAt(s) EXCEPT !.stepsError = ~storeOk,
                                                      !.pc = "returned"])
    /\ UNCHANGED <<activeAnalyses, recipes, profiles, reqs, free0, faulty, downloads, gateVars,
                   calc, ingredients, audio>>

NextSave ==
    \/ \E s \in SaveIds : SaveStart(s)
    \/ \E s \in SaveIds : SaveInsertRecipe(s)
    \/ \E s \in SaveIds : SaveMatch(s)
    \/ \E s \in SaveIds : SaveInsertIngredients(s)
    \/ \E s \in SaveIds : SaveInsertSteps(s)

\* Calls of saveRecipeToDatabase over a store whose inserts can fail
InitSave == HandlersIdle /\ GatesIdle /\ faulty = TRUE

SpecSave == InitSave /\ [][NextSave]_vars

\* The rows of a table that a call wrote
RowsBy(table, s) == { i \in 1..Len(table) : table[i].by = s }

\* C33: every ingredient row and every step row references the recipe row
\* that the same call inserted before; a call whose recipe insert failed has
\* written no row at all; a call whose recipe row exists never throws and
\* returns that row, whether or not its ingredient or step insert failed.
C33_ChildrenAfterRecipe ==
    /\ \A table \in {ingredients, steps} : \A i \in 1..Len(table) :
          /\ table[i].recipe_id \in 1..Len(recipes)
          /\ recipes[table[i].recipe_id].by = table[i].by
    /\ \A s \in SaveIds :
          /\ SaveAt(s).pc = "thrown" =>
                RowsBy(recipes, s) = {} /\ RowsBy(ingredients, s) = {} /\ RowsBy(steps, s) = {}
          /\ RowsBy(recipes, s) # {} =>
                /\ SaveAt(s).pc \in {"match", "ingredients", "steps", "returned"}
                /\ RowsBy(recipes, s) = {SaveAt(s).recipeId}

\* One call has returned its recipe although both its ingredient insert and
\* its step insert failed, another has thrown at its recipe insert
C33_Witness ==
    \E s, o \in SaveIds :
        /\ SaveAt(s).pc = "returned" /\ SaveAt(s).ingredientsError /\ SaveAt(s).stepsError
        /\ RowsBy(recipes, s) # {}
        /\ SaveAt(o).pc = "thrown" /\ SaveAt(o).hasIngredients

\* --------------------------------------------------------- extractAudio
\* The calls below are those of analyzeRecipeFromVideo for requests of
\* different users: step 3 (extractAudio), steps 4 and 5 (transcription and
\* analysis, which read the audio file), and the cleanup.  A file of
\* AUDIO_DIR is named by the timestamp in its name.
SetCall(a, x, c) == [a EXCEPT !.calls = MapSet(@, x, c)]

\* TikTokPlatform.js:52-63: extractAudio is called and awaits checkYtDlp
ExtractStart(x) ==
    /\ CallAt(x).pc = "idle"
    /\ audio' = SetCall(audio, x, [CallAt(x) EXCEPT !.pc = "check"])
    /\ UNCHANGED <<activeAnalyses, recipes, profiles, reqs, free0, faulty, downloads, gateVars,
                   calc, ingredients, steps, saves>>

\* TikTokPlatform.js:65-90: timestamp = Date.now() names the output file,
\* yt-dlp is spawned and its close is awaited
ExtractSpawn(x) ==
    /\ CallAt(x).pc = "check"
    /\ audio' = SetCall(audio, x, [CallAt(x) EXCEPT !.pc = "ytdlp", !.timestamp = now])
    /\ UNCHANGED <<activeAnalyses, recipes, profiles, reqs, free0, faulty, downloads, gateVars,
                   calc, ingredients, steps, saves>>

\* TikTokPlatform.js:90-119: yt-dlp has written audio_<timestamp>.mp3 and
\* exited with code 0; the file whose name starts with audio_<timestamp> is
\* the result, and analyzer.js:52-57 goes on to transcribe it
ExtractClose(x) ==
    /\ CallAt(x).pc = "ytdlp"
    /\ LET c == CallAt(x)
       IN audio' = [ calls |-> MapSet(audio.calls, x,
                                  [c EXCEPT !.pc = "transcribe", !.fullPath = c.timestamp]),
                     files |-> audio.files \cup {c.timestamp} ]
    /\ UNCHANGED <<activeAnalyses, recipes, profiles, reqs, free0, faulty, downloads, gateVars,
                   calc, ingredients, steps, saves>>

\* analyzer.js:52-62: the transcription and the analysis are over
ExtractTranscribed(x) ==
    /\ CallAt(x).pc = "transcribe"
    /\ audio' = SetCall(audio, x, [CallAt(x) EXCEPT !.pc = "cleanup"])
    /\ UNCHANGED <<activeAnalyses, recipes, profiles, reqs, free0, faulty, downloads, gateVars,
                   calc, ingredients, steps, saves>>

\* analyzer.js:64-67 and Platform.cleanup: the file at audioPath is unlinked
\* if it exists
ExtractCleanup(x) ==
    /\ CallAt(x).pc = "cleanup"
    /\ audio' = [ calls |-> MapSet(audio.calls, x, [CallAt(x) EXCEPT !.pc = "done"]),
                  files |-> audio.files \ {CallAt(x).fullPath} ]
    /\ UNCHANGED <<activeAnalyses, recipes, profiles, reqs, free0, faulty, downloads, gateVars,
                   calc, ingredients, steps, saves>>

NextAudio ==
    \/ \E x \in ExtractionIds : ExtractStart(x)
    \/ \E x \in ExtractionIds : ExtractSpawn(x)
    \/ \E x \in ExtractionIds : ExtractClose(x)
    \/ \E x \in ExtractionIds : ExtractTranscribed(x)
    \/ \E x \in ExtractionIds : ExtractCleanup(x)
    \/ Tick

InitAudio == HandlersIdle /\ GatesIdle /\ faulty = FALSE

SpecAudio == InitAudio /\ [][NextAudio]_vars

\* C34: two extractions that are running never have the same audio file
\* path, and the file a request is transcribing is in the directory.
C34_DistinctAudioPaths ==
    /\ \A x, y \in ExtractionIds :
          (x # y /\ CallAt(x).pc \in {"ytdlp", "transcribe", "cleanup"}
                 /\ CallAt(y).pc \in {"ytdlp", "transcribe", "cleanup"}) =>
              CallAt(x).timestamp # CallAt(y).timestamp
    /\ \A x \in ExtractionIds :
          CallAt(x).pc = "transcribe" => CallAt(x).fullPath \in audio.files

\* ------------------------------------------------ entry kept while running
\* C35: while a request is between recording its single-flight entry and
\* its response, its user is in the registry.
C35_EntryKeptWhileRunning ==
    \A r \in ReqIds :
        reqs[r].pc \in AnalysisPcs => MapHas(activeAnalyses, reqs[r].user)

\* ------------------------------------------- rate gates of both endpoints
\* Requests to /analyze and to /generate arrive at their rate gates
NextRateBoth ==
    \/ \E r \in 1..MaxMixedReqs, kind \in {"analyze", "generate"}, u \in RateUsers, ip \in Ips :
          RateArrive(r, kind, u, ip)
    \/ \E r \in GateIds : RateDbLookup(r)
    \/ \E r \in GateIds : RateResume(r)
    \/ \E r \in GateIds : RatePersist(r)
    \/ Sweep
    \/ Tick

SpecRateBoth == InitRate /\ [][NextRateBoth]_vars

\* C36: a request is denied by the rate gate of its endpoint only if there
\* is another request to the same endpoint: requests to the other endpoint
\* alone never bring a denial about.
C36_SeparateEndpoints ==
    \A r \in DOMAIN gate :
        (gate[r].pc = "done" /\ gate[r].status \in {429, 503}) =>
            \E q \in DOMAIN gate : q # r /\ gate[q].kind = gate[r].kind

\* ------------------------------------------------- global budget
\* The denials of the IP and the user scope
ScopeDenials == {"IP_BLOCKED", "IP_RATE_LIMITED", "USER_BLOCKED", "RATE_LIMITED"}

\* C37: the global counter counts no request that was denied at the IP or
\* the user scope.
C37_DeniedNotCounted ==
    rateLimitStore.global.count
        <= Cardinality({ r \in DOMAIN gate : gate[r].error \notin ScopeDenials })

\* ------------------------------------------------- counts of the period
\* The counter type a denial of the cost gate is about
TypeDenied(reason) ==
    IF reason = "HOURLY_LIMIT_REACHED" THEN "hourly_global"
    ELSE IF reason = "DAILY_LIMIT_REACHED" THEN "daily_global"
    ELSE "daily_user"

\* C38: a request that the cost gate denies arrived in a period whose
\* counter in the store has reached the limit the denial names.
C38_JudgedOnOwnPeriod ==
    [][ \A r \in DOMAIN gate :
          (gate[r].pc = "costResume" /\ gate'[r].pc = "done" /\ gate'[r].status = 429) =>
              LET t == TypeDenied(gate'[r].error)
              IN CountOf(counterRows, CounterKey(t, gate[r].user, gate[r].periods[t]))
                     >= LimitOf(t) ]_vars

\* ------------------------------------------------- one response each
\* C39: every /analyze and /generate request whose handler has finished has
\* been sent a response.
C39_AlwaysAnswered ==
    \A r \in ReqIds : reqs[r].pc = "done" => reqs[r].status # 0

\* ------------------------------------------------- debit after the save
\* C40: the step of /analyze or /generate that persists a new recipe row
\* for a non-premium user goes on to the debit of that user's quota.
C40_SavedThenDebited ==
    [][ \A r \in ReqIds :
          (/\ reqs[r].pc \in {"save", "gSave"}
           /\ ~reqs[r].isPremium
           /\ Len(recipes') = Len(recipes) + 1
           /\ recipes'[Len(recipes')].by = r) =>
              reqs'[r].pc \in {"debitSel", "gDebitSel"} ]_vars

====
